---- MODULE Spec2Model ----
(***************************************************************************)
(* dvom: the snapshot storage and encryption engine.                       *)
(*                                                                         *)
(*  - the streaming AES-GCM codec of internal/crypto (EncryptReader,       *)
(*    DecryptReader, the encryption header);                               *)
(*  - the backup / restore orchestration of internal/backup, with the      *)
(*    container stop / restart wrapper;                                    *)
(*  - the versioned snapshot layer over the filesystem backend.            *)
(*                                                                         *)
(* Sizes are scaled: a chunk is ChunkSize bytes instead of 64 KiB, the GCM *)
(* tag is Overhead bytes instead of 16, the header peek of restore is      *)
(* PeekSize bytes instead of 512, and so on.  The relations between the    *)
(* sizes that the code depends on are kept:                                *)
(*     HeaderLen < PeekSize < HeaderLen + ChunkSize + Overhead             *)
(*     CopyBuf < ChunkSize                                                 *)
(*                                                                         *)
(* AES-GCM and PBKDF2 are modelled symbolically: a sealed chunk is a       *)
(* sequence of cells that each carry the key, the nonce and the message    *)
(* they were sealed with; Open succeeds exactly on an unmodified, complete *)
(* sealed chunk presented with the same key and nonce.                     *)
(***************************************************************************)
EXTENDS Integers, Sequences, FiniteSets, TLC

\* ---------------------------------------------------------------- bounds
ChunkSize == 2
Overhead == 1
MagicLen == 2
SaltSize == 1
NonceSize == 1
MaxPlainLen == 4

\* the number of chunk counters whose nonces are compared
MaxChunks == 300

\* ------------------------------------------------------ program constants
CounterBytes == 8
FormatVersion == 1

\* ---------------------------------------------------------------- helpers
Min(a, b) == IF a < b THEN a ELSE b

Take(s, n) == SubSeq(s, 1, Min(n, Len(s)))

Drop(s, n) == SubSeq(s, Min(n, Len(s)) + 1, Len(s))

RECURSIVE XorBits(_, _, _)
XorBits(a, b, k) ==
  IF k = 0 THEN 0
  ELSE (((a % 2) + (b % 2)) % 2) + 2 * XorBits(a \div 2, b \div 2, k - 1)

\* a ^ b on bytes
XorByte(a, b) == XorBits(a, b, 8)

\* ------------------------------------------------------------ byte cells
\* A stored stream is a sequence of cells.  A plain cell is a byte in the
\* clear (header bytes, an unencrypted archive); a sealed cell is one byte
\* of the output of Seal.
NoKey == <<"", <<>>>>

PCell(b) ==
  [kind |-> "p", b |-> b, key |-> NoKey, nonce |-> <<>>, msg |-> <<>>,
   idx |-> 0, flip |-> 0]

ToCells(bytes) == [i \in 1..Len(bytes) |-> PCell(bytes[i])]

\* the byte value a cell shows to code that reads it as a plain byte
CipherByte == 255

ByteOf(c) == IF c.kind = "p" THEN c.b ELSE CipherByte

ToBytes(cells) == [i \in 1..Len(cells) |-> ByteOf(cells[i])]

\* one byte of a stream changed (a bit flipped)
FlipCell(c) ==
  IF c.kind = "p" THEN [c EXCEPT !.b = XorByte(@, 1)]
  ELSE [c EXCEPT !.flip = 1 - @]

FlipAt(s, pos) == [i \in 1..Len(s) |-> IF i = pos THEN FlipCell(s[i]) ELSE s[i]]

\* ------------------------------------------------------------- primitives
\* pbkdf2.Key(password, salt, Iterations, KeySize, sha256.New), collision free
DeriveKey(password, salt) == <<password, salt>>

\* cipher.AEAD.Seal(nil, nonce, plaintext, nil): Len(plaintext) + Overhead bytes
Seal(key, nonce, plaintext) ==
  [j \in 1..(Len(plaintext) + Overhead) |->
     [kind |-> "s", b |-> 0, key |-> key, nonce |-> nonce, msg |-> plaintext,
      idx |-> j, flip |-> 0]]

\* cipher.AEAD.Open(nil, nonce, ciphertext, nil): the plaintext when the
\* ciphertext is a complete, unmodified output of Seal under key and nonce
Open(key, nonce, seg) ==
  IF Len(seg) >= Overhead
     /\ \A j \in 1..Len(seg) : seg[j].kind = "s"
     /\ seg = Seal(key, nonce, seg[1].msg)
  THEN [ok |-> TRUE, plain |-> seg[1].msg]
  ELSE [ok |-> FALSE, plain |-> <<>>]

\* the base nonce for every chunk
ChunkNonceFixed(baseNonce, counter) == baseNonce

\* the per-chunk nonce: the counter XOR-ed, little end last, into the last
\* CounterBytes bytes of the base nonce
ChunkNonce(baseNonce, counter) ==
  [j \in 1..Len(baseNonce) |->
     LET i == Len(baseNonce) - j
     IN IF i < CounterBytes
        THEN XorByte(baseNonce[j], (counter \div (256 ^ i)) % 256)
        ELSE baseNonce[j]]

\* ----------------------------------------------------------------- header
MagicTag == <<68, 86, 79, 77, 45, 69, 78, 67>>

Magic == SubSeq(MagicTag, 1, MagicLen)

HeaderLen == MagicLen + 1 + SaltSize + NonceSize

WriteEncryptionHeader(header) ==
  ToCells(Magic \o <<FormatVersion>> \o header.Salt \o header.Nonce)

\* a header reader that takes any version byte
ReadEncryptionHeaderAnyVersion(r) ==
  LET b == ToBytes(Take(r, HeaderLen))
      none == [Salt |-> <<>>, Nonce |-> <<>>]
  IN IF Len(b) < MagicLen
       THEN [err |-> "short", header |-> none, rest |-> Drop(r, MagicLen)]
     ELSE IF SubSeq(b, 1, MagicLen) # Magic
       THEN [err |-> "magic", header |-> none, rest |-> Drop(r, MagicLen)]
     ELSE IF Len(b) < HeaderLen
       THEN [err |-> "short", header |-> none, rest |-> <<>>]
     ELSE [err |-> "nil",
           header |-> [Salt |-> SubSeq(b, MagicLen + 2, MagicLen + 1 + SaltSize),
                       Nonce |-> SubSeq(b, MagicLen + 2 + SaltSize, HeaderLen)],
           rest |-> Drop(r, HeaderLen)]

\* ReadEncryptionHeader over the bytes a reader still holds; io.ReadFull
\* gathers short reads, so only the byte sequence matters
ReadEncryptionHeader(r) ==
  LET b == ToBytes(Take(r, HeaderLen))
      none == [Salt |-> <<>>, Nonce |-> <<>>]
  IN IF Len(b) < MagicLen
       THEN [err |-> "short", header |-> none, rest |-> Drop(r, MagicLen)]
     ELSE IF SubSeq(b, 1, MagicLen) # Magic
       THEN [err |-> "magic", header |-> none, rest |-> Drop(r, MagicLen)]
     ELSE IF Len(b) < MagicLen + 1
       THEN [err |-> "short", header |-> none, rest |-> Drop(r, MagicLen + 1)]
     ELSE IF b[MagicLen + 1] # FormatVersion
       THEN [err |-> "version", header |-> none, rest |-> Drop(r, MagicLen + 1)]
     ELSE IF Len(b) < HeaderLen
       THEN [err |-> "short", header |-> none, rest |-> <<>>]
     ELSE [err |-> "nil",
           header |-> [Salt |-> SubSeq(b, MagicLen + 2, MagicLen + 1 + SaltSize),
                       Nonce |-> SubSeq(b, MagicLen + 2 + SaltSize, HeaderLen)],
           rest |-> Drop(r, HeaderLen)]

\* a test of the length alone
IsEncryptedAny(data) == Len(data) >= MagicLen

\* IsEncrypted(data): data is a buffer, zero filled beyond what was read
IsEncrypted(data) ==
  Len(data) >= MagicLen /\ SubSeq(data, 1, MagicLen) = Magic

\* ---------------------------------------------------------- EncryptReader
\* reader: the bytes the wrapped reader has still to deliver
NewEncryptReader(r, password, salt, nonce) ==
  [reader |-> r, cipher |-> DeriveKey(password, salt), baseNonce |-> nonce,
   counter |-> 0, encrypted |-> <<>>, eof |-> FALSE]

\* EncryptReader.Read(p) with len(p) = cap; n is what er.reader.Read(er.buffer)
\* returns when it is called (0 with io.EOF at the end of the input)
EncryptReaderRead(er, n, cap) ==
  IF er.eof /\ Len(er.encrypted) = 0
    THEN [r |-> er, data |-> <<>>, err |-> "EOF"]
  ELSE IF Len(er.encrypted) > 0
    THEN [r |-> [er EXCEPT !.encrypted = Drop(@, cap)],
          data |-> Take(er.encrypted, cap), err |-> "nil"]
  ELSE IF n > 0
    THEN LET sealed == Seal(er.cipher, ChunkNonce(er.baseNonce, er.counter),
                            Take(er.reader, n))
         IN [r |-> [er EXCEPT !.reader = Drop(@, n), !.counter = @ + 1,
                               !.encrypted = Drop(sealed, cap)],
             data |-> Take(sealed, cap), err |-> "nil"]
  ELSE [r |-> [er EXCEPT !.eof = TRUE], data |-> <<>>, err |-> "EOF"]

\* ---------------------------------------------------------- DecryptReader
NewDecryptReader(r, password, header) ==
  [reader |-> r, cipher |-> DeriveKey(password, header.Salt),
   baseNonce |-> header.Nonce, counter |-> 0, decrypted |-> <<>>, eof |-> FALSE]

\* the size of dr.buffer
DecryptBufSize == ChunkSize + Overhead

DecryptReaderReadLeaky(dr, n, cap) ==
  IF dr.eof /\ Len(dr.decrypted) = 0
    THEN [r |-> dr, data |-> <<>>, err |-> "EOF"]
  ELSE IF Len(dr.decrypted) > 0
    THEN [r |-> [dr EXCEPT !.decrypted = Drop(@, cap)],
          data |-> Take(dr.decrypted, cap), err |-> "nil"]
  ELSE IF n > 0
    THEN LET seg == Take(dr.reader, n)
             o == Open(dr.cipher, ChunkNonce(dr.baseNonce, dr.counter), seg)
         IN IF ~o.ok
              THEN [r |-> [dr EXCEPT !.reader = Drop(@, n)],
                    data |-> Take(ToBytes(seg), cap), err |-> "auth"]
              ELSE [r |-> [dr EXCEPT !.reader = Drop(@, n), !.counter = @ + 1,
                                    !.decrypted = Drop(o.plain, cap)],
                    data |-> Take(o.plain, cap), err |-> "nil"]
  ELSE [r |-> [dr EXCEPT !.eof = TRUE], data |-> <<>>, err |-> "EOF"]

\* DecryptReader.Read(p) with len(p) = cap; n is what dr.reader.Read(dr.buffer)
\* returns when it is called (0 with io.EOF at the end of the input).  The n
\* bytes of that one Read are handed to Open as one sealed chunk.
DecryptReaderRead(dr, n, cap) ==
  IF dr.eof /\ Len(dr.decrypted) = 0
    THEN [r |-> dr, data |-> <<>>, err |-> "EOF"]
  ELSE IF Len(dr.decrypted) > 0
    THEN [r |-> [dr EXCEPT !.decrypted = Drop(@, cap)],
          data |-> Take(dr.decrypted, cap), err |-> "nil"]
  ELSE IF n > 0
    THEN LET seg == Take(dr.reader, n)
             o == Open(dr.cipher, ChunkNonce(dr.baseNonce, dr.counter), seg)
         IN IF ~o.ok
              THEN [r |-> [dr EXCEPT !.reader = Drop(@, n)],
                    data |-> <<>>, err |-> "auth"]
              ELSE [r |-> [dr EXCEPT !.reader = Drop(@, n), !.counter = @ + 1,
                                    !.decrypted = Drop(o.plain, cap)],
                    data |-> Take(o.plain, cap), err |-> "nil"]
  ELSE [r |-> [dr EXCEPT !.eof = TRUE], data |-> <<>>, err |-> "EOF"]

\* --------------------------------------------------- copies through io.Copy
\* the buffer of io.Copy, smaller than a chunk
CopyBuf == 1

\* the bytes that a copy through an EncryptReader or a DecryptReader holds in
\* memory at one time: the buffer of io.Copy, one chunk in the clear and one
\* sealed chunk
StreamHeld == CopyBuf + ChunkSize + (ChunkSize + Overhead)

\* io.Copy(dst, MultiReader(header, encryptReader)): Read after Read into the
\* copy buffer, to io.EOF.  The reader under the EncryptReader is the archive
\* file, which fills er.buffer as long as bytes are left.
RECURSIVE CopyFromEncrypt(_, _)
CopyFromEncrypt(er, acc) ==
  LET res == EncryptReaderRead(er, Min(ChunkSize, Len(er.reader)), CopyBuf)
  IN IF res.err = "EOF" THEN acc ELSE CopyFromEncrypt(res.r, acc \o res.data)

\* io.Copy(tempFile, decryptReader).  The reader under the DecryptReader is
\* io.MultiReader(bytes.NewReader(headerBytes[:n]), backup.DataReader): one
\* Read returns bytes of one of the two readers only, `first` being what is
\* left of the peeked bytes; each of the two fills the buffer as far as it can.
RECURSIVE CopyFromDecrypt(_, _, _)
CopyFromDecrypt(dr, first, acc) ==
  LET n == IF first > 0 THEN Min(DecryptBufSize, first)
           ELSE Min(DecryptBufSize, Len(dr.reader))
      res == DecryptReaderRead(dr, n, CopyBuf)
      used == Len(dr.reader) - Len(res.r.reader)
  IN IF res.err = "EOF" THEN [data |-> acc \o res.data, err |-> "nil"]
     ELSE IF res.err # "nil" THEN [data |-> acc \o res.data, err |-> res.err]
     ELSE CopyFromDecrypt(res.r, IF first > used THEN first - used ELSE 0,
                          acc \o res.data)

\* ----------------------------------------------------------------- volumes
\* The content of a volume is a sequence of bytes.  The sandbox command
\* "tar czf /backup.tar.gz -C /data ." is modelled as an archive that states
\* its own length, so that a cut or altered archive does not extract.
Archive(content) == <<Len(content)>> \o content

ExtractOK(a) == Len(a) >= 1 /\ a[1] = Len(a) - 1

Extracted(a) == Tail(a)

\* the cap of the copy out of the backup sandbox
maxBackupSize == 3

\* io.CopyN(dst, src, n): n bytes of src and no error when src holds n bytes
\* or more; all of src and io.EOF when it holds fewer
CopyN(src, n) ==
  [data |-> Take(src, n), err |-> IF Len(src) < n THEN "EOF" ELSE "nil"]

\* backupDirectVolume(volume, outputFile): the archive made in the sandbox is
\* copied to the output file; an error of CopyN other than io.EOF fails
backupDirectVolume(content, sandboxFail) ==
  IF sandboxFail THEN [err |-> "sandbox", file |-> <<>>]
  ELSE LET cp == CopyN(Archive(content), maxBackupSize)
       IN IF cp.err # "nil" /\ cp.err # "EOF"
            THEN [err |-> "copy", file |-> cp.data]
            ELSE [err |-> "nil", file |-> cp.data]

\* restoreDirectVolume(volume, backupFile): the backup file is read into
\* memory as a whole (held: the bytes in memory at one time), the sandbox is
\* created and the archive copied into it (dockerFail: one of these steps
\* fails); once started, the sandbox clears the volume and then extracts the
\* archive
restoreDirectVolume(content, backupData, dockerFail) ==
  IF dockerFail
    THEN [err |-> "docker", content |-> content, started |-> FALSE,
          held |-> Len(backupData)]
  ELSE IF ExtractOK(backupData)
    THEN [err |-> "nil", content |-> Extracted(backupData), started |-> TRUE,
          held |-> Len(backupData)]
  ELSE [err |-> "exit code", content |-> <<>>, started |-> TRUE,
        held |-> Len(backupData)]

\* -------------------------------------------------------------- containers
Containers == {"c1", "c2"}

\* the id of each container
ContainerID == [c \in Containers |-> IF c = "c1" THEN "id1" ELSE "id2"]

\* the container that the docker client finds for a word of the stop list:
\* the one of that name or of that id
Lookup(name) == {c \in Containers : name = c \/ name = ContainerID[c]}

NoMap == [c \in Containers |-> "none"]

\* stopContainers(containerNames): the map of the containers handled so far
\* ("was": was running and has been stopped, "wasnot": was not running), the
\* containers that ContainerStop has stopped, in order, the running states and
\* the error.  A name that GetContainer does not find, or a failing stop call,
\* returns at once with the map built so far.
RECURSIVE stopContainers(_, _, _, _, _)
stopContainers(names, run, stopFail, map, calls) ==
  IF names = <<>>
    THEN [map |-> map, calls |-> calls, running |-> run, err |-> "nil"]
  ELSE LET found == Lookup(Head(names))
       IN IF found = {}
            THEN [map |-> map, calls |-> calls, running |-> run,
                  err |-> "not found"]
          ELSE LET c == CHOOSE x \in found : TRUE
               IN IF run[c] /\ c \in stopFail
                    THEN [map |-> map, calls |-> calls, running |-> run,
                          err |-> "stop"]
                  ELSE stopContainers(Tail(names), [run EXCEPT ![c] = FALSE],
                                      stopFail,
                                      [map EXCEPT ![c] = IF run[c] THEN "was"
                                                         ELSE "wasnot"],
                                      IF run[c] THEN Append(calls, c) ELSE calls)

\* a restart that returns at the first start that fails
restartContainersAbort(map, run, startFail) ==
  LET was == {c \in Containers : map[c] = "was"}
  IN IF was \cap startFail = {}
       THEN [running |-> [c \in Containers |-> IF c \in was THEN TRUE ELSE run[c]],
             attempts |-> was, errors |-> {}]
       ELSE [running |-> run, attempts |-> was \cap startFail,
             errors |-> was \cap startFail]

\* restartContainers(stoppedContainers): StartContainer for every entry that
\* was running; a failure is collected and the loop goes on
restartContainers(map, run, startFail) ==
  LET was == {c \in Containers : map[c] = "was"}
  IN [running |-> [c \in Containers |->
                     IF c \in was \ startFail THEN TRUE ELSE run[c]],
      attempts |-> was,
      errors |-> was \cap startFail]

\* ----------------------------------------------------- filesystem backend
\* A stored object is named by its id, "name@version", a sequence of pieces.
\* The backend keeps the data file and the metadata file of an id apart.
EmptyStore == [data |-> <<>>, meta |-> <<>>]

Put(f, k, v) == [x \in (DOMAIN f) \cup {k} |-> IF x = k THEN v ELSE f[x]]

Remove(f, k) == [x \in (DOMAIN f) \ {k} |-> f[x]]

\* LocalStorage.Store(backup); fp is the step that fails, "none" when none
LocalStore(st, id, metadata, data, fp) ==
  IF fp = "create" THEN [store |-> st, err |-> "create"]
  ELSE IF fp = "copy"
    THEN [store |-> [st EXCEPT !.data = Remove(@, id)], err |-> "copy"]
  ELSE IF fp = "metaCreate"
    THEN [store |-> [st EXCEPT !.data = Remove(@, id)], err |-> "metaCreate"]
  ELSE IF fp = "encode"
    THEN [store |-> [data |-> Remove(st.data, id), meta |-> Remove(st.meta, id)],
          err |-> "encode"]
  ELSE [store |-> [data |-> Put(st.data, id, data),
                   meta |-> Put(st.meta, id, metadata)],
        err |-> "nil"]

StoreFailPoints == {"none", "create", "copy", "metaCreate", "encode"}

NoMeta == [ID |-> <<>>, Name |-> <<>>, Size |-> 0, CreatedAt |-> 0,
           Version |-> "", Encrypted |-> FALSE]

\* a Retrieve that opens the metadata file only
LocalRetrieveMeta(st, id) ==
  IF id \notin DOMAIN st.meta
    THEN [err |-> "not found", metadata |-> NoMeta, data |-> <<>>]
  ELSE [err |-> "nil", metadata |-> st.meta[id],
        data |-> IF id \in DOMAIN st.data THEN st.data[id] ELSE <<>>]

\* LocalStorage.Retrieve(id)
LocalRetrieve(st, id) ==
  IF id \notin DOMAIN st.meta
    THEN [err |-> "not found", metadata |-> NoMeta, data |-> <<>>]
  ELSE IF id \notin DOMAIN st.data
    THEN [err |-> "open", metadata |-> NoMeta, data |-> <<>>]
  ELSE [err |-> "nil", metadata |-> st.meta[id], data |-> st.data[id]]

\* a delete for which a file that does not exist is an error
LocalDeleteStrict(st, id, fp) ==
  IF fp = "data" \/ id \notin DOMAIN st.data
    THEN [store |-> st, err |-> "remove data"]
  ELSE IF fp = "meta" \/ id \notin DOMAIN st.meta
    THEN [store |-> [st EXCEPT !.data = Remove(@, id)], err |-> "remove meta"]
  ELSE [store |-> [data |-> Remove(st.data, id), meta |-> Remove(st.meta, id)],
        err |-> "nil"]

\* a delete that leaves the metadata file
LocalDeleteData(st, id, fp) ==
  [store |-> [st EXCEPT !.data = Remove(@, id)], err |-> "nil"]

\* LocalStorage.Delete(id): the data file is removed, then the metadata
\* file; a file that does not exist is no error.  fp is the removal that
\* fails, "none" when none
LocalDelete(st, id, fp) ==
  IF fp = "data" THEN [store |-> st, err |-> "remove data"]
  ELSE IF fp = "meta"
    THEN [store |-> [st EXCEPT !.data = Remove(@, id)], err |-> "remove meta"]
  ELSE [store |-> [data |-> Remove(st.data, id), meta |-> Remove(st.meta, id)],
        err |-> "nil"]

DeleteFailPoints == {"none", "data", "meta"}

\* LocalStorage.Exists(id): the metadata file exists
LocalExists(st, id) == id \in DOMAIN st.meta

\* ------------------------------------------------------- snapshot versions
\* time: `now` counts ticks, TicksPerSec ticks to the second; the version
\* token is the time to the second, CreatedAt the time to the tick
TicksPerSec == 2

Tokens == <<"t0", "t1", "t2", "t3", "t4", "t5">>

Format(t) == Tokens[(t \div TicksPerSec) + 1]

TokenIndex(tok) == CHOOSE i \in 1..Len(Tokens) : Tokens[i] = tok

\* cleanSnapshotName: one trailing ".tar.gz" and then one trailing ".zip"
\* are cut, and "/" and "\" become "-".  A name is a sequence of pieces.
TrimSuffix(name, suffix) ==
  IF Len(name) >= 1 /\ name[Len(name)] = suffix
    THEN SubSeq(name, 1, Len(name) - 1) ELSE name

ReplaceAll(name, old, new) ==
  [i \in 1..Len(name) |-> IF name[i] = old THEN new ELSE name[i]]

cleanSnapshotName(name) ==
  ReplaceAll(ReplaceAll(TrimSuffix(TrimSuffix(name, ".tar.gz"), ".zip"),
                        "/", "-"), "\\", "-")

Contains(s, piece) == \E i \in 1..Len(s) : s[i] = piece

HasPrefix(s, prefix) ==
  Len(s) >= Len(prefix) /\ SubSeq(s, 1, Len(prefix)) = prefix

\* SnapshotStorage.StoreSnapshot(name, backup) at time now: the version token
\* is the local time, which is `zone` ticks ahead of the time, to the second
StoreSnapshot(st, name, metadata, data, now, zone, fp) ==
  IF name = <<>> THEN [store |-> st, err |-> "name required", id |-> <<>>]
  ELSE LET clean == cleanSnapshotName(name)
           timestamp == Format(now + zone)
           versionedID == clean \o <<"@", timestamp>>
           md == [metadata EXCEPT !.Name = clean, !.CreatedAt = now,
                                  !.Version = timestamp, !.ID = versionedID]
           res == LocalStore(st, versionedID, md, data, fp)
       IN [store |-> res.store, err |-> res.err, id |-> versionedID]

\* Backend.List: the metadata records of the store.  The order is the
\* backend's (the order of the directory entries or of the object listing),
\* so every order of the records is one that List may return.
RECURSIVE Perms(_)
Perms(S) ==
  IF S = {} THEN {<<>>}
  ELSE UNION {{<<x>> \o p : p \in Perms(S \ {x})} : x \in S}

List(st) == Perms({st.meta[id] : id \in DOMAIN st.meta})

\* strings.SplitN(id, "@", 2): the pieces before the first "@" and the pieces
\* after it; one part when there is no "@"
SplitN(id) ==
  IF ~Contains(id, "@") THEN <<id>>
  ELSE LET i == CHOOSE k \in 1..Len(id) :
                  id[k] = "@" /\ \A j \in 1..(k - 1) : id[j] # "@"
       IN <<SubSeq(id, 1, i - 1), SubSeq(id, i + 1, Len(id))>>

\* the VersionInfo of a listed record
VersionInfo(backup) ==
  [Version |-> SplitN(backup.ID)[2], Size |-> backup.Size,
   CreatedAt |-> backup.CreatedAt]

\* SnapshotStorage.ListVersions(name); backups is what backend.List returned
RECURSIVE ListVersions(_, _)
ListVersions(backups, name) ==
  IF backups = <<>> THEN <<>>
  ELSE (IF HasPrefix(Head(backups).ID, cleanSnapshotName(name) \o <<"@">>)
          THEN <<VersionInfo(Head(backups))>> ELSE <<>>)
       \o ListVersions(Tail(backups), name)

\* the entry listed last
LatestListed(best, rest) == IF rest = <<>> THEN best ELSE rest[Len(rest)]

\* the first entry that no later one is After
RECURSIVE Latest(_, _)
Latest(best, rest) ==
  IF rest = <<>> THEN best
  ELSE Latest(IF Head(rest).CreatedAt > best.CreatedAt THEN Head(rest) ELSE best,
              Tail(rest))

\* SnapshotStorage.GetLatestVersion(name)
GetLatestVersion(backups, name) ==
  LET versions == ListVersions(backups, name)
  IN IF versions = <<>> THEN [err |-> "no versions", version |-> <<>>]
     ELSE [err |-> "nil", version |-> Latest(versions[1], versions).Version]

\* SnapshotStorage.GetSnapshot(nameOrVersioned)
GetSnapshot(st, backups, nameOrVersioned) ==
  LET clean == cleanSnapshotName(nameOrVersioned)
  IN IF Contains(clean, "@") THEN LocalRetrieve(st, clean)
     ELSE LET latest == GetLatestVersion(backups, clean)
          IN IF latest.err # "nil"
               THEN [err |-> latest.err, metadata |-> NoMeta, data |-> <<>>]
               ELSE LocalRetrieve(st, clean \o <<"@">> \o latest.version)

\* a loop that ends after the first version
DeleteFirst(st, name, versions, k, fp, failAt, calls) ==
  [store |-> LocalDelete(st, name \o <<"@">> \o versions[1].Version, "none").store,
   err |-> "nil", calls |-> <<name \o <<"@">> \o versions[1].Version>>]

\* the loop of DeleteSnapshot over the versions of a name: backend.Delete for
\* each in turn, ended by the first that fails; failAt is the turn that fails
\* (0: none), calls the ids given to backend.Delete so far
RECURSIVE DeleteEach(_, _, _, _, _, _, _)
DeleteEach(st, name, versions, k, fp, failAt, calls) ==
  IF k > Len(versions) THEN [store |-> st, err |-> "nil", calls |-> calls]
  ELSE LET versionedID == name \o <<"@">> \o versions[k].Version
           res == LocalDelete(st, versionedID, IF k = failAt THEN fp ELSE "none")
       IN IF res.err # "nil"
            THEN [store |-> res.store, err |-> "delete version",
                  calls |-> Append(calls, versionedID)]
            ELSE DeleteEach(res.store, name, versions, k + 1, fp, failAt,
                            Append(calls, versionedID))

\* a delete for which a name without versions is no error
DeleteSnapshotQuiet(st, backups, nameOrVersioned, fp, failAt) ==
  LET clean == cleanSnapshotName(nameOrVersioned)
      one == LocalDelete(st, clean, IF failAt = 0 THEN "none" ELSE fp)
  IN IF Contains(clean, "@")
       THEN [store |-> one.store, err |-> one.err, calls |-> <<clean>>]
       ELSE DeleteEach(st, clean, ListVersions(backups, clean), 1, fp, failAt,
                       <<>>)

\* SnapshotStorage.DeleteSnapshot(nameOrVersioned)
DeleteSnapshot(st, backups, nameOrVersioned, fp, failAt) ==
  LET clean == cleanSnapshotName(nameOrVersioned)
      one == LocalDelete(st, clean, IF failAt = 0 THEN "none" ELSE fp)
      versions == ListVersions(backups, clean)
  IN IF Contains(clean, "@")
       THEN [store |-> one.store, err |-> one.err, calls |-> <<clean>>]
     ELSE IF versions = <<>>
       THEN [store |-> st, err |-> "no snapshots found", calls |-> <<>>]
     ELSE DeleteEach(st, clean, versions, 1, fp, failAt, <<>>)

\* SnapshotStorage.SnapshotExists(nameOrVersioned)
SnapshotExists(st, backups, nameOrVersioned) ==
  LET clean == cleanSnapshotName(nameOrVersioned)
  IN IF Contains(clean, "@") THEN LocalExists(st, clean)
     ELSE ListVersions(backups, clean) # <<>>

\* the records of ListSnapshots' group of a name, in the order of the listing
RECURSIVE GroupOf(_, _)
GroupOf(backups, name) ==
  IF backups = <<>> THEN <<>>
  ELSE (IF Contains(Head(backups).ID, "@") /\ SplitN(Head(backups).ID)[1] = name
          THEN <<Head(backups)>> ELSE <<>>)
       \o GroupOf(Tail(backups), name)

\* a SnapshotInfo of the first record of the group
SnapshotInfoFirst(name, versions) ==
  LET latestBackup == versions[1]
  IN [Name |-> name, Size |-> latestBackup.Size,
      CreatedAt |-> latestBackup.CreatedAt, Version |-> latestBackup.Version,
      VersionCount |-> Len(versions), Encrypted |-> latestBackup.Encrypted]

\* the SnapshotInfo that ListSnapshots makes of a group
SnapshotInfo(name, versions) ==
  LET latestBackup == Latest(versions[1], versions)
  IN [Name |-> name, Size |-> latestBackup.Size,
      CreatedAt |-> latestBackup.CreatedAt, Version |-> latestBackup.Version,
      VersionCount |-> Len(versions), Encrypted |-> latestBackup.Encrypted]

\* SnapshotStorage.ListSnapshots(): one SnapshotInfo for each key of the map
\* of groups; the order of the result is the order of the map's iteration,
\* which is not fixed, so the result is the set of its entries
ListSnapshots(backups) ==
  {SnapshotInfo(name, GroupOf(backups, name)) :
     name \in {SplitN(backups[i].ID)[1] :
                 i \in {k \in 1..Len(backups) : Contains(backups[k].ID, "@")}}}

\* Client.DeleteSnapshot(nameOrVersioned, force): without force, a bare name
\* that has no version is an error before the confirmation is asked, and
\* any answer but "y" or "Y" cancels
ClientDeleteSnapshot(st, backups, nameOrVersioned, force, answer, fp, failAt) ==
  LET isVersioned == Contains(nameOrVersioned, "@")
      kept == [store |-> st, err |-> "nil", calls |-> <<>>]
  IN IF ~force /\ ~isVersioned /\ ListVersions(backups, nameOrVersioned) = <<>>
       THEN [kept EXCEPT !.err = "no snapshots found"]
     ELSE IF ~force /\ answer # "y" /\ answer # "Y"
       THEN kept
     ELSE DeleteSnapshot(st, backups, nameOrVersioned, fp, failAt)

\* ------------------------------------------------------------ orchestrator
\* what the header peek of a restore reads beyond the header
PeekExtra == 2

\* the size of the buffer of the header peek
PeekSize == HeaderLen + PeekExtra

\* the steps of an operation, in the order they were taken
Ev(e) == [e |-> e, c |-> ""]

CEv(e, c) == [e |-> e, c |-> c]

\* what an operation has done: its error, the store, the content of its
\* volume and the running states when it returns, and what it did on the way
NoOut ==
  [err |-> "nil", store |-> EmptyStore, content |-> <<>>,
   running |-> [c \in Containers |-> FALSE], log |-> <<>>,
   stopCalls |-> <<>>, stopped |-> NoMap, startCalls |-> {},
   restartErrs |-> {}, warnings |-> {}, held |-> 0, started |-> FALSE, temp |-> <<>>, decErr |-> "nil",
   archive |-> <<>>, file |-> <<>>, id |-> <<>>]

\* BackupDirectVolume(volumeName, snapshotName): content is what the volume
\* holds, typed what the user types at a password prompt, salt and nonce what
\* rand.Read delivers, fault the step that fails ("none": none does)
BackupDirectVolume(st, content, snapshotName, encryptEnabled, password, typed, salt, nonce, now, fault) ==
  LET bk == backupDirectVolume(content, fault = "sandbox")
      pw == IF password = "" THEN typed ELSE password
      size == Len(bk.file)
      data == IF encryptEnabled
                THEN WriteEncryptionHeader([Salt |-> salt, Nonce |-> nonce])
                     \o CopyFromEncrypt(
                          NewEncryptReader(bk.file, pw, salt, nonce), <<>>)
                ELSE ToCells(bk.file)
      encryptedSize == IF encryptEnabled
                         THEN HeaderLen + size + (size \div ChunkSize) * Overhead
                         ELSE size
      md == [NoMeta EXCEPT !.ID = snapshotName, !.Name = snapshotName,
                           !.Size = encryptedSize, !.CreatedAt = now,
                           !.Encrypted = encryptEnabled]
      ss == StoreSnapshot(st, snapshotName, md, data, now, 0,
                          IF fault \in StoreFailPoints THEN fault ELSE "none")
      base == [NoOut EXCEPT !.store = st, !.content = content]
      made == [base EXCEPT !.archive = Archive(content), !.file = bk.file]
  IN IF fault = "volume"
       THEN [base EXCEPT !.err = "volume", !.log = <<Ev("volume")>>]
     ELSE IF bk.err # "nil"
       THEN [base EXCEPT !.err = bk.err,
                         !.log = <<Ev("volume"), Ev("archive")>>]
     ELSE IF encryptEnabled /\ pw = ""
       THEN [made EXCEPT !.err = "password required",
                         !.log = <<Ev("volume"), Ev("archive"), Ev("password")>>]
     ELSE [made EXCEPT !.err = ss.err, !.store = ss.store, !.id = ss.id,
                       !.held = StreamHeld,
                       !.log = <<Ev("volume"), Ev("archive")>>
                               \o (IF encryptEnabled THEN <<Ev("password")>>
                                   ELSE <<>>)
                               \o <<Ev("store")>>]

CopyFailedIgnored(err) == FALSE

\* the test of the error of io.Copy(writer, finalReader)
CopyFailed(err) == err # "nil"

\* RestoreDirectVolume from the copy into the temporary file on: cp is what
\* io.Copy has written and its error, base the outcome so far, keyed the
\* steps so far
RestoreDirectVolumeCopied(base, keyed, cp, fault) ==
  LET rs == restoreDirectVolume(base.content, cp.data, fault = "docker")
      copied == [base EXCEPT !.temp = cp.data, !.decErr = cp.err]
  IN IF CopyFailed(cp.err)
       THEN [copied EXCEPT !.err = "write backup data", !.held = StreamHeld,
                           !.log = keyed \o <<Ev("copy")>>]
       ELSE [copied EXCEPT !.err = IF rs.err = "nil" THEN "nil" ELSE "restore",
                           !.held = IF rs.held > StreamHeld THEN rs.held
                                    ELSE StreamHeld,
                           !.content = rs.content, !.started = rs.started,
                           !.log = keyed \o <<Ev("copy")>>
                                   \o (IF rs.started THEN <<Ev("sandbox")>>
                                       ELSE <<>>)]

DeclinedNever(force, answer) == FALSE

\* the confirmation of a restore: without force, any answer but "y" or "Y"
\* cancels
Declined(force, answer) == ~force /\ answer # "y" /\ answer # "Y"

\* RestoreDirectVolume from the retrieved snapshot on: the dry run, the
\* confirmation, the header peek and the decryption of an encrypted snapshot
RestoreDirectVolumeFound(base, got, dryRun, force, answer, pw, fault) ==
  LET n == Min(PeekSize, Len(got.data))
      hd == ReadEncryptionHeader(got.data)
      found == <<Ev("volume"), Ev("retrieve")>>
      asked == found \o (IF force THEN <<>> ELSE <<Ev("prompt")>>)
      keyed == asked \o <<Ev("peek"), Ev("password")>>
  IN IF got.err # "nil"
       THEN [base EXCEPT !.err = "retrieve", !.log = found]
     ELSE IF dryRun
       THEN [base EXCEPT !.log = found \o <<Ev("dryrun")>>,
                         !.id = got.metadata.ID]
     ELSE IF Declined(force, answer)
       THEN [base EXCEPT !.log = asked \o <<Ev("cancel")>>,
                         !.id = got.metadata.ID]
     ELSE IF ~got.metadata.Encrypted
       THEN RestoreDirectVolumeCopied(
              [base EXCEPT !.id = got.metadata.ID], asked,
              [data |-> ToBytes(got.data), err |-> "nil"], fault)
     ELSE IF n = 0
       THEN [base EXCEPT !.err = "read header", !.log = asked \o <<Ev("peek")>>]
     ELSE IF ~IsEncrypted(ToBytes(Take(got.data, n)))
       THEN [base EXCEPT !.err = "no header", !.log = asked \o <<Ev("peek")>>]
     ELSE IF pw = ""
       THEN [base EXCEPT !.err = "password required", !.log = keyed]
     ELSE IF hd.err # "nil"
       THEN [base EXCEPT !.err = "header", !.log = keyed]
     ELSE RestoreDirectVolumeCopied(
            [base EXCEPT !.id = got.metadata.ID], keyed,
            CopyFromDecrypt(NewDecryptReader(hd.rest, pw, hd.header),
                            n - HeaderLen, <<>>),
            fault)

\* what Retrieve returns of a record whose data file was damaged after it was
\* stored: its first byte changed ("damaged") or nothing left of it
\* ("truncated")
Retrieved(got, fault) ==
  IF got.err # "nil" \/ got.data = <<>> THEN got
  ELSE IF fault = "damaged" THEN [got EXCEPT !.data[1] = FlipCell(@)]
  ELSE IF fault = "truncated" THEN [got EXCEPT !.data = <<>>]
  ELSE got

\* RestoreDirectVolume(volumeName, snapshotName, dryRun, force): content is
\* what the target volume holds, answer what the user answers the
\* confirmation with, typed what the user types at a password prompt
RestoreDirectVolume(st, backups, content, snapshotName, dryRun, force, answer, password, typed, fault) ==
  IF fault = "volume"
    THEN [NoOut EXCEPT !.store = st, !.content = content, !.err = "volume",
                       !.log = <<Ev("volume")>>]
    ELSE RestoreDirectVolumeFound(
           [NoOut EXCEPT !.store = st, !.content = content],
           Retrieved(GetSnapshot(st, backups, snapshotName), fault), dryRun,
           force, answer,
           IF password = "" THEN typed ELSE password, fault)

\* the container that a failing stop or start call fails on
FailOn(fault, step) == IF fault = step THEN {"c1"} ELSE {}

StopLog(calls) == [i \in 1..Len(calls) |-> CEv("stop", calls[i])]

\* the operations without the deferred restart: an operation that fails
\* returns with its containers left stopped
WithContainersNoDefer(before, sc, body, startFail, verbose) ==
  LET rc == restartContainers(sc.map, sc.running, startFail)
  IN IF sc.err # "nil"
       THEN [before EXCEPT !.err = "stop containers", !.running = sc.running,
                           !.log = StopLog(sc.calls), !.stopCalls = sc.calls,
                           !.stopped = sc.map]
     ELSE IF body.err # "nil"
       THEN [body EXCEPT !.running = sc.running,
                         !.log = StopLog(sc.calls) \o body.log,
                         !.stopCalls = sc.calls, !.stopped = sc.map]
       ELSE [body EXCEPT !.running = rc.running,
                         !.log = StopLog(sc.calls) \o body.log
                                 \o (IF rc.attempts = {} THEN <<>>
                                     ELSE <<Ev("restart")>>),
                         !.stopCalls = sc.calls, !.stopped = sc.map,
                         !.startCalls = rc.attempts,
                         !.restartErrs = rc.errors,
                         !.warnings = IF verbose THEN rc.errors ELSE {}]

\* what the two operations with containers share: the return on the error of
\* stopContainers (sc), which comes before the restart is deferred, and the
\* deferred restartContainers once the operation itself has returned (body)
WithContainers(before, sc, body, startFail, verbose) ==
  LET rc == restartContainers(sc.map, sc.running, startFail)
  IN IF sc.err # "nil"
       THEN [before EXCEPT !.err = "stop containers", !.running = sc.running,
                           !.log = StopLog(sc.calls), !.stopCalls = sc.calls,
                           !.stopped = sc.map]
       ELSE [body EXCEPT !.running = rc.running,
                         !.log = StopLog(sc.calls) \o body.log
                                 \o (IF rc.attempts = {} THEN <<>>
                                     ELSE <<Ev("restart")>>),
                         !.stopCalls = sc.calls, !.stopped = sc.map,
                         !.startCalls = rc.attempts,
                         !.restartErrs = rc.errors,
                         !.warnings = IF verbose THEN rc.errors ELSE {}]

\* BackupDirectVolumeWithContainers(volumeName, snapshotName, stopContainers)
BackupDirectVolumeWithContainers(st, content, run, snapshotName, encryptEnabled, password, typed, salt, nonce, now, stopContainerNames, fault, verbose) ==
  WithContainers(
    [NoOut EXCEPT !.store = st, !.content = content],
    stopContainers(stopContainerNames, run, FailOn(fault, "stop"), NoMap, <<>>),
    BackupDirectVolume(st, content, snapshotName, encryptEnabled, password,
                       typed, salt, nonce, now, fault),
    FailOn(fault, "start"), verbose)

\* RestoreDirectVolumeWithContainers(volumeName, snapshotName, dryRun, force,
\* stopContainers)
RestoreDirectVolumeWithContainers(st, backups, content, run, snapshotName, dryRun, force, answer, password, typed, stopContainerNames, fault, verbose) ==
  WithContainers(
    [NoOut EXCEPT !.store = st, !.content = content],
    stopContainers(stopContainerNames, run, FailOn(fault, "stop"), NoMap, <<>>),
    RestoreDirectVolume(st, backups, content, snapshotName, dryRun, force,
                        answer, password, typed, fault),
    FailOn(fault, "start"), verbose)

\* ------------------------------------------------------------ input sets
RandBytes == {0, 1}
Passwords == {"pw1", "pw2"}
\* the plaintexts: every length up to MaxPlainLen, the bytes all different so
\* that a lost, repeated or misplaced byte shows
Plaintexts == {[i \in 1..k |-> i] : k \in 0..MaxPlainLen}
\* the random salt and base nonce: two possible values of each
Salts == {[i \in 1..SaltSize |-> b] : b \in RandBytes}
Nonces == {[i \in 1..NonceSize |-> b] : b \in RandBytes}
\* the sizes of the buffer a caller passes to Read: smaller than a chunk (the
\* buffer of io.Copy) and as large as a sealed chunk
Caps == {1, DecryptBufSize}

\* what one Read of a reader that holds `left` bytes may return into a
\* buffer of `size` bytes: 0 (io.EOF) when nothing is left, else 1..size
\* bytes (io.Reader: "Read conventionally returns what is available")
ReadSizes(left, size) == IF left = 0 THEN {0} ELSE 1..Min(left, size)

\* what a volume holds: every length up to MaxContentLen
MaxContentLen == 3

Contents == {[i \in 1..k |-> i] : k \in 0..MaxContentLen}

\* the lists of containers to stop: none, two containers, one container
\* named twice, a container and a name that no container has
StopLists == {<<>>, <<"c1", "c2">>, <<"c2", "c1">>, <<"c1", "c1">>,
              <<"c1", "id1">>, <<"c1", "ghost">>}

\* the output modes: --verbose, neither flag, --quiet
OutputModes == {"verbose", "default", "quiet"}

\* the output modes an operation is run in: each of them when a start fails,
\* which is where the mode decides what is reported
ModesOf(fault) == IF fault = "start" THEN OutputModes ELSE {"verbose"}

\* the input of one operation: the flags and arguments of the command line,
\* what the user types when asked, and the step that fails
In(name, encrypt, password, typed, dryRun, force, answer, stopList, fault, mode) ==
  [name |-> name, encrypt |-> encrypt, password |-> password, typed |-> typed,
   dryRun |-> dryRun, force |-> force, answer |-> answer,
   stopList |-> stopList, fault |-> fault, mode |-> mode]

\* backup: --encrypt and --password (encryption is enabled when either is
\* given; without a password the user is asked for one)
BackupCrypt == {<<FALSE, "", "">>, <<TRUE, "pw1", "">>, <<TRUE, "", "pw1">>,
                <<TRUE, "", "">>}

BackupInputs ==
  {In(<<"b1">>, k[1], k[2], k[3], FALSE, FALSE, "", <<>>, f, "verbose") :
     k \in BackupCrypt, f \in {"volume", "sandbox"} \cup StoreFailPoints}
  \cup {in \in {In(<<"b1">>, FALSE, "", "", FALSE, FALSE, "", sl, f, mode) :
                     sl \in StopLists, f \in {"none", "sandbox", "stop", "start"},
                     mode \in OutputModes} : in.mode \in ModesOf(in.fault)}

\* restore: --dry-run, --force and the answer to the confirmation
RestoreModes == {<<TRUE, FALSE, "">>, <<FALSE, TRUE, "">>, <<FALSE, FALSE, "y">>,
                 <<FALSE, FALSE, "n">>}

\* restore: --password, and what is typed when it is not given
RestoreCrypt == {<<"pw1", "">>, <<"pw2", "">>, <<"", "pw1">>, <<"", "">>}

RestoreInputs ==
  {In(<<"b1">>, FALSE, k[1], k[2], m[1], m[2], m[3], <<>>, f, "verbose") :
     k \in RestoreCrypt, m \in RestoreModes,
     f \in {"none", "volume", "docker", "damaged", "truncated"}}
  \cup {in \in {In(<<"b1">>, FALSE, pw, "", m[1], m[2], m[3], sl, f, mode) :
                     pw \in Passwords, m \in RestoreModes, sl \in StopLists,
                     f \in {"none", "docker", "stop", "start"},
                     mode \in OutputModes} : in.mode \in ModesOf(in.fault)}

\* =================================================================== state
VARIABLES
  cphase,     \* codec run: "enc", "tamper", "hdr", "dec", "done", "after",
              \* "end"; else the kind of run: "off", "store", "conc", "docker",
              \* "names", "repo"
  plain,      \* the plaintext given to NewEncryptReader
  epw,        \* the password of encryption
  dpw,        \* the password of decryption
  er,         \* the EncryptReader
  chunks,     \* the plaintext of each chunk sealed so far
  stream,     \* header and sealed chunks written so far
  tamperPos,  \* the position of the first changed byte, 0 when none
  dr,         \* the DecryptReader
  out,        \* the plaintext the DecryptReader has returned to its caller
  derr,       \* how decryption ended: "" (running), "nil", or the error
  now,        \* the time, in ticks
  store,      \* the storage backend: data files and metadata files by id
  vol,        \* the content of each volume
  running,    \* which containers run
  ops         \* the operations run so far: input, outcome, state before

cvars == <<cphase, plain, epw, dpw, er, chunks, stream, tamperPos, dr, out, derr>>

ovars == <<now, store, vol, running, ops>>

vars == <<cvars, ovars>>

NoReader == [reader |-> <<>>, cipher |-> NoKey, baseNonce |-> <<>>,
             counter |-> 0, decrypted |-> <<>>, eof |-> FALSE]

\* ---------------------------------------------------- the codec on its own
\* NewEncryptReader on a plaintext, with a fresh salt and nonce, and the
\* header written in front of the encrypted stream (as BackupDirectVolume does)
CodecInit ==
  /\ cphase = "enc"
  /\ plain \in Plaintexts
  /\ epw \in Passwords
  /\ dpw \in Passwords
  /\ \E salt \in Salts, nonce \in Nonces :
       /\ er = NewEncryptReader(plain, epw, salt, nonce)
       /\ stream = WriteEncryptionHeader([Salt |-> salt, Nonce |-> nonce])
  /\ chunks = <<>>
  /\ tamperPos = 0
  /\ dr = NoReader
  /\ out = <<>>
  /\ derr = ""
  /\ now = 0
  /\ store = EmptyStore
  /\ vol = [v \in {"v1", "v2"} |-> <<>>]
  /\ running = [c \in Containers |-> FALSE]
  /\ ops = <<>>

\* one EncryptReader.Read by the writer of the stream
CodecEncRead ==
  /\ cphase = "enc"
  /\ \E cap \in Caps, n \in ReadSizes(Len(er.reader), ChunkSize) :
       LET res == EncryptReaderRead(er, n, cap)
       IN /\ er' = res.r
          /\ stream' = stream \o res.data
          /\ chunks' = IF res.r.counter > er.counter
                         THEN Append(chunks, Take(er.reader, n)) ELSE chunks
          /\ cphase' = IF res.err = "EOF" THEN "tamper" ELSE "enc"
  /\ UNCHANGED <<plain, epw, dpw, tamperPos, dr, out, derr, ovars>>

\* the stored stream is left alone, or one byte of it is changed
CodecTamper ==
  /\ cphase = "tamper"
  /\ \E pos \in 0..Len(stream) :
       /\ tamperPos' = pos
       /\ stream' = FlipAt(stream, pos)
  /\ cphase' = "hdr"
  /\ UNCHANGED <<plain, epw, dpw, er, chunks, dr, out, derr, ovars>>

\* ReadEncryptionHeader, then NewDecryptReader over the rest of the stream
CodecReadHeader ==
  /\ cphase = "hdr"
  /\ LET h == ReadEncryptionHeader(stream)
     IN IF h.err # "nil"
          THEN /\ derr' = h.err
               /\ cphase' = "done"
               /\ dr' = dr
          ELSE /\ derr' = derr
               /\ cphase' = "dec"
               /\ dr' = NewDecryptReader(h.rest, dpw, h.header)
  /\ UNCHANGED <<plain, epw, dpw, er, chunks, stream, tamperPos, out, ovars>>

\* one DecryptReader.Read by a caller that reads to the end or to the first
\* error
CodecDecRead ==
  /\ cphase = "dec"
  /\ \E cap \in Caps, n \in ReadSizes(Len(dr.reader), DecryptBufSize) :
       LET res == DecryptReaderRead(dr, n, cap)
       IN /\ dr' = res.r
          /\ out' = out \o res.data
          /\ derr' = IF res.err = "nil" THEN derr
                     ELSE IF res.err = "EOF" THEN "nil" ELSE res.err
          /\ cphase' = IF res.err = "nil" THEN "dec" ELSE "done"
  /\ UNCHANGED <<plain, epw, dpw, er, chunks, stream, tamperPos, ovars>>

\* the stored stream gets a foreign block between its header and its chunks:
\* a block as large as a whole sealed chunk that no Seal has produced
CodecSplice ==
  /\ cphase = "tamper"
  /\ tamperPos' = HeaderLen + 1
  /\ stream' = Take(stream, HeaderLen)
                \o [j \in 1..DecryptBufSize |-> PCell(0)]
                \o Drop(stream, HeaderLen)
  /\ cphase' = "hdr"
  /\ UNCHANGED <<plain, epw, dpw, er, chunks, dr, out, derr, ovars>>

\* one more DecryptReader.Read by a caller that goes on reading after a Read
\* has returned the authentication error, until the end of the input; ops
\* holds what the last of these Reads returned
CodecDecReadOn ==
  /\ \/ cphase = "done" /\ derr = "auth"
     \/ cphase = "after"
  /\ \E cap \in Caps, n \in ReadSizes(Len(dr.reader), DecryptBufSize) :
       LET res == DecryptReaderRead(dr, n, cap)
       IN /\ dr' = res.r
          /\ ops' = <<[err |-> res.err, data |-> res.data]>>
          /\ cphase' = IF res.err = "EOF" THEN "end" ELSE "after"
  /\ UNCHANGED <<plain, epw, dpw, er, chunks, stream, tamperPos, out, derr,
                 now, store, vol, running>>

CodecNext ==
  \/ CodecEncRead
  \/ CodecTamper
  \/ CodecSplice
  \/ CodecReadHeader
  \/ CodecDecRead
  \/ CodecDecReadOn

SpecCodec == CodecInit /\ [][CodecNext]_vars

\* ------------------------------------------- backup and restore of a volume
\* A run is a backup of volume v1 as snapshot b1 followed by a restore of b1
\* into volume v2, each with the containers to stop; a restore with nothing
\* stored is a run too.  Container c1 runs; container c2 runs or does not.
Init ==
  /\ cphase = "off"
  /\ plain = <<>>
  /\ epw = ""
  /\ dpw = ""
  /\ er = NoReader
  /\ chunks = <<>>
  /\ stream = <<>>
  /\ tamperPos = 0
  /\ dr = NoReader
  /\ out = <<>>
  /\ derr = ""
  /\ now = 0
  /\ store = EmptyStore
  /\ \E content \in Contents : vol = [v \in {"v1", "v2"} |->
                                       IF v = "v1" THEN content ELSE <<9>>]
  /\ \E both \in BOOLEAN : running = [c \in Containers |-> c = "c1" \/ both]
  /\ ops = <<>>

Done(kind) == \E i \in 1..Len(ops) : ops[i].kind = kind

\* the operation has returned: its outcome becomes the state, and the
\* operation is recorded with the state it started from
Returned(kind, volume, in, o) ==
  /\ vol' = [vol EXCEPT ![volume] = o.content]
  /\ store' = o.store
  /\ running' = o.running
  /\ ops' = Append(ops, [kind |-> kind, in |-> in, out |-> o,
                         volBefore |-> vol[volume], runBefore |-> running,
                         storeBefore |-> store])

\* dvom backup: BackupDirectVolumeWithContainers on volume v1
Backup ==
  /\ ops = <<>>
  /\ now' = now + 1
  /\ \E in \in BackupInputs, salt \in Salts, nonce \in Nonces :
       Returned("backup", "v1", in,
                BackupDirectVolumeWithContainers(
                  store, vol["v1"], running, in.name, in.encrypt, in.password,
                  in.typed, salt, nonce, now + 1, in.stopList, in.fault,
                  in.mode = "verbose"))
  /\ UNCHANGED cvars

\* dvom restore: RestoreDirectVolumeWithContainers on volume v2
Restore ==
  /\ ~Done("restore")
  /\ \E in \in RestoreInputs, backups \in List(store) :
       Returned("restore", "v2", in,
                RestoreDirectVolumeWithContainers(
                  store, backups, vol["v2"], running, in.name, in.dryRun,
                  in.force, in.answer, in.password, in.typed, in.stopList,
                  in.fault, in.mode = "verbose"))
  /\ UNCHANGED <<cvars, now>>

Next == Backup \/ Restore

Spec == Init /\ [][Next]_vars

\* ------------------------------------------- the snapshot store on its own
\* the number of calls of a run
MaxCalls == 3

\* the names given to StoreSnapshot: two plain names and one that holds "@"
StoreNames == {<<"a">>, <<"b">>, <<"a", "@", "x">>}

\* the archives put into the store: a small one and one larger than the cap
\* of the copy out of the backup sandbox and than the buffers of a copy
SmallArchive == Archive(<<1>>)

LargeArchive == Archive([i \in 1..(MaxContentLen + StreamHeld) |-> i])

\* how far the local clock of a call is ahead of the time (the time zone of
\* the process that makes the call)
ZoneAhead == 2 * TicksPerSec

\* the stream that an encrypted backup of the small archive stores
EncryptedArchive ==
  LET salt == [i \in 1..SaltSize |-> 0]
      nonce == [i \in 1..NonceSize |-> 0]
  IN WriteEncryptionHeader([Salt |-> salt, Nonce |-> nonce])
     \o CopyFromEncrypt(NewEncryptReader(SmallArchive, "pw1", salt, nonce), <<>>)

\* what is stored by a call, beside the name: the data and the metadata as
\* BackupDirectVolume makes them, the zone of the local clock and the step
\* that fails
StoreIn(data, size, encrypted, zone, fp) ==
  [data |-> data, encrypted |-> encrypted, zone |-> zone, fp |-> fp,
   metadata |-> [NoMeta EXCEPT !.Size = size, !.Encrypted = encrypted]]

\* the stores of a run: the small archive, the large archive, the small
\* archive encrypted and stored by a process whose clock is ahead, and the
\* small archive with a failing copy of the data
StoreInputs ==
  {StoreIn(ToCells(SmallArchive), Len(SmallArchive), FALSE, 0, "none"),
   StoreIn(ToCells(LargeArchive), Len(LargeArchive), FALSE, 0, "none"),
   StoreIn(EncryptedArchive,
           HeaderLen + Len(SmallArchive)
             + (Len(SmallArchive) \div ChunkSize) * Overhead,
           TRUE, ZoneAhead, "none"),
   StoreIn(ToCells(SmallArchive), Len(SmallArchive), FALSE, 0, "copy")}

\* the input of a delete, beside its argument: --force, the answer to the
\* confirmation, the removal that fails (of the data file or the metadata
\* file) and the call of backend.Delete it fails in
DeleteInputs ==
  {<<TRUE, "", "none", 0>>, <<TRUE, "", "data", 1>>, <<TRUE, "", "meta", 1>>,
   <<TRUE, "", "meta", 2>>, <<FALSE, "y", "none", 0>>, <<FALSE, "n", "none", 0>>}

\* a store that holds a snapshot of an earlier run: one version of "b"
FoundStore ==
  StoreSnapshot(EmptyStore, <<"b">>, [NoMeta EXCEPT !.Size = Len(SmallArchive)],
                ToCells(SmallArchive), 0, 0, "none").store

\* the store is empty or holds the snapshot of an earlier run
StoreInit ==
  /\ cphase = "store"
  /\ plain = <<>>
  /\ epw = ""
  /\ dpw = ""
  /\ er = NoReader
  /\ chunks = <<>>
  /\ stream = <<>>
  /\ tamperPos = 0
  /\ dr = NoReader
  /\ out = <<>>
  /\ derr = ""
  /\ now = 0
  /\ store \in {EmptyStore, FoundStore}
  /\ vol = [v \in {"v1", "v2"} |-> IF v = "v1" THEN <<>> ELSE <<9>>]
  /\ running = [c \in Containers |-> FALSE]
  /\ ops = <<>>

\* a call has returned: the time has passed, and the call is recorded as the
\* last one of the run, with the ids that the backend no longer lists
Called(kind, arg, res, data, started) ==
  /\ now' = now + 1
  /\ store' = res.store
  /\ ops' = <<[kind |-> kind, arg |-> arg, err |-> res.err, id |-> res.id,
               calls |-> res.calls, data |-> data, started |-> started,
               held |-> res.held,
               removed |-> (DOMAIN store.meta) \ (DOMAIN res.store.meta)]>>

\* a run is a sequence of stores and deletes, ended by at most one restore
CallsLeft == now < MaxCalls /\ ~Done("restore")

\* StoreSnapshot of an archive under a name
StoreCall ==
  /\ CallsLeft
  /\ \E name \in StoreNames, in \in StoreInputs :
       LET ss == StoreSnapshot(store, name, in.metadata, in.data, now + 1,
                               in.zone, in.fp)
       IN Called("store", name,
                 [store |-> ss.store, err |-> ss.err, id |-> ss.id,
                  calls |-> <<>>, held |-> StreamHeld], in.data, FALSE)
  /\ UNCHANGED <<cvars, vol, running>>

\* the arguments of a delete: a name, or name@version of a stored object;
\* backend.List is called for a name only
DeleteArgs(st) ==
  {<<arg, backups>> : arg \in {n \in StoreNames : ~Contains(n, "@")},
                      backups \in List(st)}
  \cup {<<arg, <<>>>> : arg \in {n \in StoreNames : Contains(n, "@")}
                                \cup DOMAIN st.meta \cup DOMAIN st.data}

\* dvom delete: Client.DeleteSnapshot of a name or of name@version
DeleteCall ==
  /\ CallsLeft
  /\ \E a \in DeleteArgs(store), in \in DeleteInputs :
       LET ds == ClientDeleteSnapshot(store, a[2], a[1], in[1], in[2],
                                      in[3], in[4])
       IN Called("delete", a[1],
                 [store |-> ds.store, err |-> ds.err, id |-> <<>>,
                  calls |-> ds.calls, held |-> 0], <<>>, FALSE)
  /\ UNCHANGED <<cvars, vol, running>>

\* dvom restore --force of a stored snapshot into volume v2
RestoreCall ==
  /\ CallsLeft
  /\ \E name \in StoreNames, backups \in List(store) :
       LET o == RestoreDirectVolume(store, backups, vol["v2"], name, FALSE,
                                    TRUE, "", "", "", "none")
       IN /\ Called("restore", name,
                    [store |-> o.store, err |-> o.err, id |-> o.id,
                     calls |-> <<>>, held |-> o.held], o.temp, o.started)
          /\ vol' = [vol EXCEPT !["v2"] = o.content]
  /\ UNCHANGED <<cvars, running>>

StoreNext == StoreCall \/ DeleteCall \/ RestoreCall

SpecStore == StoreInit /\ [][StoreNext]_vars

\* ------------------------------------- two instances on one storage backend
\* Two instances of dvom store a backup each into the same directory.  The
\* steps of LocalStorage.Store of the two interleave; the clock goes on
\* between the steps.
MaxTicks == 2

ConcNames == {<<"a">>, <<"b">>}

ConcArchives == {SmallArchive, LargeArchive}

\* os.Create of the data file of id: the file is there and empty
StoreCreate(st, id) == [st EXCEPT !.data = Put(@, id, <<>>)]

\* io.Copy into the data file through a descriptor opened by os.Create: the
\* bytes are written from offset 0 on over what the file holds
StoreCopy(st, id, data) ==
  LET held == IF id \in DOMAIN st.data THEN st.data[id] ELSE <<>>
  IN [st EXCEPT !.data = Put(@, id, data \o Drop(held, Len(data)))]

\* os.Create of the metadata file and the encoding of the metadata into it
StoreEncode(st, id, metadata) == [st EXCEPT !.meta = Put(@, id, metadata)]

\* an instance before its call of StoreSnapshot
Instance(name, archive) ==
  [pc |-> "start", name |-> name, data |-> ToCells(archive), id |-> <<>>,
   metadata |-> [NoMeta EXCEPT !.Size = Len(archive)]]

ConcInit ==
  /\ cphase = "conc"
  /\ plain = <<>>
  /\ epw = ""
  /\ dpw = ""
  /\ er = NoReader
  /\ chunks = <<>>
  /\ stream = <<>>
  /\ tamperPos = 0
  /\ dr = NoReader
  /\ out = <<>>
  /\ derr = ""
  /\ now = 0
  /\ store = EmptyStore
  /\ vol = [v \in {"v1", "v2"} |-> <<>>]
  /\ running = [c \in Containers |-> FALSE]
  /\ \E n1, n2 \in ConcNames, a1, a2 \in ConcArchives :
       ops = <<Instance(n1, a1), Instance(n2, a2)>>

\* StoreSnapshot up to its call of backend.Store: the version token and the
\* time of creation are taken from the clock
ConcBegin(p) ==
  /\ cphase = "conc"
  /\ ops[p].pc = "start"
  /\ LET clean == cleanSnapshotName(ops[p].name)
         timestamp == Format(now)
         versionedID == clean \o <<"@", timestamp>>
     IN ops' = [ops EXCEPT ![p].pc = "create", ![p].id = versionedID,
                           ![p].metadata = [@ EXCEPT !.Name = clean,
                                                     !.CreatedAt = now,
                                                     !.Version = timestamp,
                                                     !.ID = versionedID]]
  /\ UNCHANGED <<cvars, now, store, vol, running>>

ConcCreate(p) ==
  /\ cphase = "conc"
  /\ ops[p].pc = "create"
  /\ store' = StoreCreate(store, ops[p].id)
  /\ ops' = [ops EXCEPT ![p].pc = "copy"]
  /\ UNCHANGED <<cvars, now, vol, running>>

ConcCopy(p) ==
  /\ cphase = "conc"
  /\ ops[p].pc = "copy"
  /\ store' = StoreCopy(store, ops[p].id, ops[p].data)
  /\ ops' = [ops EXCEPT ![p].pc = "encode"]
  /\ UNCHANGED <<cvars, now, vol, running>>

ConcEncode(p) ==
  /\ cphase = "conc"
  /\ ops[p].pc = "encode"
  /\ store' = StoreEncode(store, ops[p].id, ops[p].metadata)
  /\ ops' = [ops EXCEPT ![p].pc = "done"]
  /\ UNCHANGED <<cvars, now, vol, running>>

\* the clock goes on while an instance is at work
ConcTick ==
  /\ cphase = "conc"
  /\ now < MaxTicks
  /\ \E p \in 1..2 : ops[p].pc # "done"
  /\ now' = now + 1
  /\ UNCHANGED <<cvars, store, vol, running, ops>>

ConcNext ==
  \/ ConcTick
  \/ \E p \in 1..2 : ConcBegin(p)
  \/ \E p \in 1..2 : ConcCreate(p)
  \/ \E p \in 1..2 : ConcCopy(p)
  \/ \E p \in 1..2 : ConcEncode(p)

SpecConc == ConcInit /\ [][ConcNext]_vars

\* ------------------------------------------------- finding a container
\* The containers that docker may list.  An id and a name are sequences of
\* characters; docker lists a name with a leading "/".  The name of the
\* second is the beginning of the id of the first, and the ids of the first
\* and the third begin alike.
DockerContainers ==
  {[ID |-> <<"a", "b", "1">>, Names |-> <<<<"/", "x">>>>],
   [ID |-> <<"c", "d", "2">>, Names |-> <<<<"/", "a", "b">>>>],
   [ID |-> <<"a", "c", "3">>, Names |-> <<<<"/", "z">>>>]}

\* ContainerList(All: true): some containers, in the order docker gives them
ContainerLists == UNION {Perms(S) : S \in SUBSET DockerContainers}

\* the words given to GetContainer: the empty word, the beginning of two
\* ids, a name that is the beginning of an id, a whole id, names, and a word
\* that is nothing
Words == {<<>>, <<"a">>, <<"a", "b">>, <<"a", "b", "1">>, <<"c", "d">>,
          <<"x">>, <<"z">>, <<"q">>}

\* strings.TrimPrefix(s, "/")
TrimSlash(s) == IF HasPrefix(s, <<"/">>) THEN Tail(s) ELSE s

\* GetContainer(name) over the listing `containers`: the first container of
\* the listing whose id is the word or begins with it, or one of whose names
\* is the word
RECURSIVE GetContainer(_, _)
GetContainer(containers, name) ==
  IF containers = <<>>
    THEN [found |-> FALSE, container |-> [ID |-> <<>>, Names |-> <<>>]]
  ELSE LET container == Head(containers)
       IN IF container.ID = name \/ HasPrefix(container.ID, name)
            THEN [found |-> TRUE, container |-> container]
          ELSE IF \E k \in 1..Len(container.Names) :
                    TrimSlash(container.Names[k]) = name
            THEN [found |-> TRUE, container |-> container]
          ELSE GetContainer(Tail(containers), name)

\* docker holds some containers and lists them in some order
DockerInit ==
  /\ cphase = "docker"
  /\ store \in ContainerLists
  /\ ops = <<>>
  /\ plain = <<>>
  /\ epw = ""
  /\ dpw = ""
  /\ er = NoReader
  /\ chunks = <<>>
  /\ stream = <<>>
  /\ tamperPos = 0
  /\ dr = NoReader
  /\ out = <<>>
  /\ derr = ""
  /\ now = 0
  /\ vol = [v \in {"v1", "v2"} |-> <<>>]
  /\ running = [c \in Containers |-> FALSE]

\* one call of GetContainer; ops holds the word and what the call returned
GetContainerCall ==
  /\ cphase = "docker"
  /\ \E name \in Words :
       ops' = <<[name |-> name, got |-> GetContainer(store, name)]>>
  /\ UNCHANGED <<cvars, now, store, vol, running>>

DockerNext == GetContainerCall

SpecDocker == DockerInit /\ [][DockerNext]_vars

\* ------------------------------------------------ the names of snapshots
\* the stores of a run of names
MaxNameCalls == 2

\* the names given to StoreSnapshot: a plain name, names that end in one or
\* in more than one archive extension, a name that is an extension only, a
\* name with a path separator and a name that holds "@"
SnapshotNames ==
  {<<"a">>, <<"b", ".tar.gz">>, <<"a", ".zip">>, <<"a", ".zip", ".zip">>,
   <<"a", ".tar.gz", ".zip">>, <<".zip">>, <<"a", "/", "b">>, <<"a", "@", "x">>}

NamesInit ==
  /\ cphase = "names"
  /\ store \in {EmptyStore, FoundStore}
  /\ ops = <<>>
  /\ now = 0
  /\ plain = <<>>
  /\ epw = ""
  /\ dpw = ""
  /\ er = NoReader
  /\ chunks = <<>>
  /\ stream = <<>>
  /\ tamperPos = 0
  /\ dr = NoReader
  /\ out = <<>>
  /\ derr = ""
  /\ vol = [v \in {"v1", "v2"} |-> <<>>]
  /\ running = [c \in Containers |-> FALSE]

\* StoreSnapshot of the small archive under a name; ops holds the name, the
\* id under which the backend stored it and the error
NameStoreCall ==
  /\ cphase = "names"
  /\ now < MaxNameCalls
  /\ \E name \in SnapshotNames :
       LET ss == StoreSnapshot(store, name,
                               [NoMeta EXCEPT !.Size = Len(SmallArchive)],
                               ToCells(SmallArchive), now + 1, 0, "none")
       IN /\ store' = ss.store
          /\ ops' = <<[name |-> name, id |-> ss.id, err |-> ss.err,
                       data |-> ToCells(SmallArchive)]>>
  /\ now' = now + 1
  /\ UNCHANGED <<cvars, vol, running>>

NamesNext == NameStoreCall

SpecNames == NamesInit /\ [][NamesNext]_vars

\* --------------------------------------------------------- the repository
\* the calls of a run of the repository
MaxRepoCalls == 4

RepoContainers == {"web", "db"}

\* the ids that the caller gives to its backups
BackupIDs == {"k1", "k2"}

\* the key of the index in the backend
IndexID == <<".dvom/index.json">>

\* the index of a new repository
NewIndex(at) == [CreatedAt |-> at, UpdatedAt |-> at, Containers |-> <<>>]

\* json.MarshalIndent of the index and json.Unmarshal of the document
Marshal(index) == [json |-> index]

Unmarshal(data) == data.json

\* the length of the index document, counted in its references
IndexSize(index) ==
  Cardinality({<<c, i>> \in (DOMAIN index.Containers) \X (1..MaxRepoCalls) :
                 i <= Len(index.Containers[c].Backups)})

\* Repository.loadIndex
loadIndex(st) ==
  LET backup == LocalRetrieve(st, IndexID)
  IN IF backup.err # "nil" THEN [err |-> "retrieve index", index |-> NewIndex(0)]
     ELSE [err |-> "nil", index |-> Unmarshal(backup.data)]

\* Repository.saveIndex
saveIndex(st, index, at) ==
  LocalStore(st, IndexID,
             [NoMeta EXCEPT !.ID = IndexID, !.Name = <<"repository-index">>,
                            !.Size = IndexSize(index), !.CreatedAt = at],
             Marshal(index), "none")

\* Repository.initialize, run by NewRepository
initialize(st, at) ==
  IF LocalExists(st, IndexID) THEN [store |-> st, err |-> "nil"]
  ELSE saveIndex(st, NewIndex(at), at)

\* the path of a backup: containers/{name}/v{version}/{id}
BackupPath(containerName, version, id) ==
  <<"containers", containerName, version, id>>

\* Repository.StoreBackup(backup) at the time `at`
StoreBackup(st, id, metadata, data, at) ==
  LET loaded == loadIndex(st)
      index == loaded.index
      containerName == metadata.Name
      backups == IF containerName \in DOMAIN index.Containers
                   THEN index.Containers[containerName].Backups ELSE <<>>
      version == Len(backups) + 1
      backupPath == BackupPath(containerName, version, id)
      md == [metadata EXCEPT !.ID = id, !.CreatedAt = at]
      stored == LocalStore(st, backupPath, md, data, "none")
      backupRef == [ID |-> id, Version |-> version, CreatedAt |-> at,
                    Size |-> md.Size]
      containerHistory == [Name |-> containerName,
                           Backups |-> Append(backups, backupRef),
                           LatestID |-> id, UpdatedAt |-> at]
      saved == saveIndex(stored.store,
                         [index EXCEPT !.UpdatedAt = at,
                                       !.Containers = Put(@, containerName,
                                                          containerHistory)],
                         at)
  IN IF loaded.err # "nil" THEN [store |-> st, err |-> "load index"]
     ELSE IF containerName = "" THEN [store |-> st, err |-> "name required"]
     ELSE IF stored.err # "nil" THEN [store |-> stored.store, err |-> "store"]
     ELSE IF saved.err # "nil" THEN [store |-> saved.store, err |-> "update index"]
     ELSE [store |-> saved.store, err |-> "nil"]

NoBackup == [err |-> "not found", metadata |-> NoMeta, data |-> <<>>]

\* Repository.GetBackup(containerName, version)
GetBackup(st, containerName, version) ==
  LET loaded == loadIndex(st)
      index == loaded.index
  IN IF loaded.err # "nil" THEN [NoBackup EXCEPT !.err = loaded.err]
     ELSE IF containerName \notin DOMAIN index.Containers
       THEN [NoBackup EXCEPT !.err = "container not found"]
     ELSE IF version <= 0 \/ version > Len(index.Containers[containerName].Backups)
       THEN [NoBackup EXCEPT !.err = "version not found"]
     ELSE LET backupRef == index.Containers[containerName].Backups[version]
          IN LocalRetrieve(st, BackupPath(containerName, version, backupRef.ID))

\* Repository.GetLatestBackup(containerName)
GetLatestBackup(st, containerName) ==
  LET loaded == loadIndex(st)
      index == loaded.index
  IN IF loaded.err # "nil" THEN [NoBackup EXCEPT !.err = loaded.err]
     ELSE IF containerName \notin DOMAIN index.Containers
       THEN [NoBackup EXCEPT !.err = "container not found"]
     ELSE IF Len(index.Containers[containerName].Backups) = 0
       THEN [NoBackup EXCEPT !.err = "no backups"]
     ELSE GetBackup(st, containerName,
                    Len(index.Containers[containerName].Backups))

\* s without its k-th entry
Without(s, k) == SubSeq(s, 1, k - 1) \o SubSeq(s, k + 1, Len(s))

\* Repository.DeleteBackup(containerName, version) at the time `at`
DeleteBackup(st, containerName, version, at) ==
  LET loaded == loadIndex(st)
      index == loaded.index
  IN IF loaded.err # "nil" THEN [store |-> st, err |-> loaded.err]
     ELSE IF containerName \notin DOMAIN index.Containers
       THEN [store |-> st, err |-> "container not found"]
     ELSE IF version <= 0 \/ version > Len(index.Containers[containerName].Backups)
       THEN [store |-> st, err |-> "version not found"]
     ELSE LET history == index.Containers[containerName]
              backupRef == history.Backups[version]
              deleted == LocalDelete(st, BackupPath(containerName, version,
                                                    backupRef.ID), "none")
              left == Without(history.Backups, version)
              containerHistory ==
                [history EXCEPT !.Backups = left,
                                !.LatestID = IF Len(left) > 0
                                               THEN left[Len(left)].ID ELSE "",
                                !.UpdatedAt = at]
          IN IF deleted.err # "nil"
               THEN [store |-> deleted.store, err |-> "delete"]
               ELSE saveIndex(deleted.store,
                              [index EXCEPT !.UpdatedAt = at,
                                            !.Containers[containerName] =
                                              containerHistory],
                              at)

\* NewRepository on an empty backend.  ops holds, for every container, the
\* backups that were stored for it and not deleted, in the order of storing.
RepoInit ==
  /\ cphase = "repo"
  /\ now = 0
  /\ store = initialize(EmptyStore, 0).store
  /\ ops = [c \in RepoContainers |-> <<>>]
  /\ plain = <<>>
  /\ epw = ""
  /\ dpw = ""
  /\ er = NoReader
  /\ chunks = <<>>
  /\ stream = <<>>
  /\ tamperPos = 0
  /\ dr = NoReader
  /\ out = <<>>
  /\ derr = ""
  /\ vol = [v \in {"v1", "v2"} |-> <<>>]
  /\ running = [c \in Containers |-> FALSE]

\* StoreBackup of a backup of a container; the data of every backup differs
RepoStoreCall ==
  /\ cphase = "repo"
  /\ now < MaxRepoCalls
  /\ \E c \in RepoContainers, id \in BackupIDs :
       LET data == <<now + 1>>
           res == StoreBackup(store, id, [NoMeta EXCEPT !.Name = c, !.Size = 1],
                              data, now + 1)
       IN /\ store' = res.store
          /\ derr' = res.err
          /\ ops' = IF res.err = "nil"
                      THEN [ops EXCEPT ![c] = Append(@, [id |-> id, data |-> data])]
                      ELSE ops
  /\ now' = now + 1
  /\ UNCHANGED <<cphase, plain, epw, dpw, er, chunks, stream, tamperPos, dr,
                 out, vol, running>>

\* DeleteBackup of a position of the history of a container
RepoDeleteCall ==
  /\ cphase = "repo"
  /\ now < MaxRepoCalls
  /\ \E c \in RepoContainers, version \in 1..MaxRepoCalls :
       LET res == DeleteBackup(store, c, version, now + 1)
       IN /\ store' = res.store
          /\ derr' = res.err
          /\ ops' = IF res.err = "nil"
                      THEN [ops EXCEPT ![c] = Without(@, version)]
                      ELSE ops
  /\ now' = now + 1
  /\ UNCHANGED <<cphase, plain, epw, dpw, er, chunks, stream, tamperPos, dr,
                 out, vol, running>>

RepoNext == RepoStoreCall \/ RepoDeleteCall

SpecRepo == RepoInit /\ [][RepoNext]_vars

\* ======================================================== claims: codec
RECURSIVE Flatten(_)
Flatten(ss) == IF ss = <<>> THEN <<>> ELSE Head(ss) \o Flatten(Tail(ss))

CodecDone == cphase = "done"

\* C1: round trip.  Whenever a stream written by the EncryptReader, left
\* unchanged, has been read to the end through a DecryptReader built with
\* the same password and the header of the stream, decryption ended without
\* error and returned exactly the original plaintext.
C1_RoundTrip ==
  (CodecDone /\ tamperPos = 0 /\ dpw = epw) => (derr = "nil" /\ out = plain)

\* C3 as claimed: when a chunk fails authentication the DecryptReader has
\* delivered no plaintext byte of the stream, whichever chunk failed.
C3_NoPlaintextBeforeFailure ==
  (CodecDone /\ derr = "auth") => out = <<>>

\* C3 amended: when a chunk fails authentication, Read returns the
\* authentication error and no byte of the failing chunk or of a later one;
\* what the caller holds is exactly the plaintext of the chunks that were
\* authenticated before it (nothing when the failing chunk is the first).
C3_FailClosedPerChunk ==
  (CodecDone /\ derr = "auth") =>
     /\ dr.counter <= Len(chunks)
     /\ out = Flatten(SubSeq(chunks, 1, dr.counter))
     /\ (dr.counter = 0 => out = <<>>)

\* C3 witness: a byte of a later chunk was changed, the chunks before it
\* were delivered, and decryption ended with the authentication error.
C3_Witness ==
  /\ CodecDone /\ derr = "auth" /\ dpw = epw
  /\ tamperPos > HeaderLen
  /\ dr.counter >= 1 /\ out # <<>>

\* C4: wrong password.  Whenever a stream, left unchanged, has been
\* decrypted with a password other than the one it was encrypted with,
\* decryption ended with the authentication error.
C4_WrongPassword ==
  (CodecDone /\ tamperPos = 0 /\ dpw # epw) => derr = "auth"

\* C5 as claimed: after the change of any one byte of the stream, header
\* included, decryption ends with the authentication error.
C5_TamperDetected ==
  (CodecDone /\ tamperPos # 0 /\ dpw = epw) => derr = "auth"

\* ========================================== claims: backup and restore
OpIs(i, kind) == i \in 1..Len(ops) /\ ops[i].kind = kind

\* the password an operation works with: the one given or, without one, the
\* one typed at the prompt
PasswordOf(in) == IF in.password = "" THEN in.typed ELSE in.password

Stopped(o) == {o.stopCalls[k] : k \in 1..Len(o.stopCalls)}

Logged(o, e) == \E k \in 1..Len(o.log) : o.log[k].e = e

\* C2: encrypted backup, then restore.  Whenever a backup with encryption
\* has stored a snapshot and a forced restore of it with the same password,
\* on which no step of the environment failed, has returned, the restore
\* succeeded and handed to the extraction exactly the archive file of the
\* backup, whatever the length of the archive.
C2_EncryptedBackupRestore ==
  \A i, j \in 1..Len(ops) :
    ( /\ OpIs(i, "backup") /\ OpIs(j, "restore")
      /\ ops[i].in.encrypt /\ ops[i].out.err = "nil"
      /\ ops[j].in.force /\ ~ops[j].in.dryRun
      /\ ops[j].in.stopList = <<>> /\ ops[j].in.fault = "none"
      /\ PasswordOf(ops[j].in) = PasswordOf(ops[i].in) )
    => ( /\ ops[j].out.err = "nil"
         /\ ops[j].out.temp = ops[i].out.file
         /\ vol["v2"] = Extracted(ops[i].out.file) )

\* C6: wrong password.  Whenever the decryption of a restore has ended with
\* the authentication error, the restore has failed, the sandbox of the
\* restore was not started and the target volume holds what it held before.
C6_WrongPasswordVolumeUntouched ==
  \A j \in 1..Len(ops) :
    (OpIs(j, "restore") /\ ops[j].out.decErr = "auth")
    => ( /\ ops[j].out.err # "nil"
         /\ ~ops[j].out.started
         /\ ~Logged(ops[j].out, "sandbox")
         /\ vol["v2"] = ops[j].volBefore )

\* C6 witness: a snapshot encrypted with one password, short enough for the
\* header peek to hold all of it, was restored with force and another
\* password; decryption ended with the authentication error.
C6_Witness ==
  \E i, j \in 1..Len(ops) :
    /\ OpIs(i, "backup") /\ OpIs(j, "restore")
    /\ ops[i].in.encrypt /\ ops[i].out.err = "nil"
    /\ Len(store.data[ops[i].out.id]) <= PeekSize
    /\ PasswordOf(ops[i].in) = "pw1" /\ PasswordOf(ops[j].in) = "pw2"
    /\ ops[j].in.force /\ ops[j].in.fault = "none"
    /\ ops[j].out.decErr = "auth"
    /\ vol["v2"] = <<9>>

\* C7: restart on every exit.  Whenever an operation whose stopContainers
\* returned without error has returned (with success, with the failure of a
\* later stage or after a cancelled confirmation), a start was attempted for
\* every container that ran before the operation and that it stopped.
C7_RestartOnEveryExit ==
  \A i \in 1..Len(ops) :
    ops[i].out.err # "stop containers"
    => \A c \in Stopped(ops[i].out) :
         ops[i].runBefore[c] => c \in ops[i].out.startCalls

\* C8: dry run.  Whenever a restore in dry-run mode has returned, with or
\* without containers to stop, it stopped no container, started no sandbox
\* and the target volume holds what it held before.
C8_DryRunNoEffect ==
  \A j \in 1..Len(ops) :
    (OpIs(j, "restore") /\ ops[j].in.dryRun)
    => ( /\ ops[j].out.stopCalls = <<>>
         /\ ~ops[j].out.started
         /\ vol["v2"] = ops[j].volBefore )

\* C9: confirmation.  Whenever a restore without force was cancelled at the
\* confirmation, no container was stopped by it and the target volume holds
\* what it held before; and no restore without force stops a container
\* before it asks.
C9_NothingBeforeYes ==
  \A j \in 1..Len(ops) :
    (OpIs(j, "restore") /\ ~ops[j].in.force /\ ~ops[j].in.dryRun)
    => ( /\ Logged(ops[j].out, "cancel")
            => (ops[j].out.stopCalls = <<>> /\ vol["v2"] = ops[j].volBefore)
         /\ \A k, l \in 1..Len(ops[j].out.log) :
              (ops[j].out.log[k].e = "stop" /\ ops[j].out.log[l].e = "prompt")
              => l < k )

\* C10: the cap of the copy out of the backup sandbox.  Whenever a backup
\* whose sandbox made an archive larger than the cap has returned, it
\* returned an error and stored nothing.
C10_BackupCapAborts ==
  \A i \in 1..Len(ops) :
    (OpIs(i, "backup") /\ Len(ops[i].out.archive) > maxBackupSize)
    => (ops[i].out.err # "nil" /\ store = ops[i].storeBefore)

\* the steps of an operation between the stop of its containers and their
\* restart
Stages(o) ==
  SelectSeq([k \in 1..Len(o.log) |-> o.log[k].e],
            LAMBDA e : e \notin {"stop", "restart"})

\* C12: backup is fail-fast.  Whenever a backup whose containers were stopped
\* without error has returned: when the volume check failed, no archive was
\* made; when the archiving failed, or the password of an encrypted backup
\* was missing, no password was asked after the failed archive, StoreSnapshot
\* was not called and the store is as it was; when the upload failed, the
\* backup returned the error; in each of these cases the backup returned an
\* error right after the failing stage, and restartContainers was run on the
\* containers that stopContainers recorded as running.
C12_BackupFailFast ==
  \A i \in 1..Len(ops) :
    (OpIs(i, "backup") /\ ops[i].out.err # "stop containers") =>
      LET o == ops[i].out
          in == ops[i].in
          missing == in.encrypt /\ PasswordOf(in) = ""
      IN /\ in.fault = "volume"
              => (o.err # "nil" /\ Stages(o) = <<"volume">>)
         /\ in.fault = "sandbox"
              => ( /\ o.err # "nil" /\ Stages(o) = <<"volume", "archive">>
                   /\ o.store = ops[i].storeBefore )
         /\ (missing /\ in.fault \notin {"volume", "sandbox"})
              => ( /\ o.err # "nil"
                   /\ Stages(o) = <<"volume", "archive", "password">>
                   /\ o.store = ops[i].storeBefore )
         /\ (in.fault \in StoreFailPoints \ {"none"} /\ ~missing)
              => (o.err # "nil" /\ Stages(o)[Len(Stages(o))] = "store")
         /\ o.err = "nil" => Stages(o)[Len(Stages(o))] = "store"
         /\ o.startCalls = {c \in Containers : o.stopped[c] = "was"}

\* C12 witness: a backup that stopped the running container c1 failed in the
\* archiving stage; nothing was stored and c1 was started again.
C12_Witness ==
  \E i \in 1..Len(ops) :
    /\ OpIs(i, "backup") /\ ops[i].in.fault = "sandbox"
    /\ ops[i].out.stopCalls = <<"c1">>
    /\ ops[i].out.err = "sandbox"
    /\ ops[i].out.startCalls = {"c1"}
    /\ store = EmptyStore /\ running["c1"]

\* the place of a step in the order of a restore
StageRank(e) ==
  CASE e = "stop" -> 1
    [] e = "volume" -> 2
    [] e = "retrieve" -> 3
    [] e \in {"dryrun", "prompt"} -> 4
    [] e = "cancel" -> 5
    [] e = "peek" -> 6
    [] e = "password" -> 7
    [] e = "copy" -> 8
    [] e = "sandbox" -> 9
    [] OTHER -> 10

Last == ops[1]

LastIs(kind) == cphase = "store" /\ ops # <<>> /\ ops[1].kind = kind

\* C11: the cap of a restore.  Whenever a restore of a snapshot whose
\* archive is larger than the cap has returned, it returned an error and
\* its sandbox was not started.
C11_RestoreCapAborts ==
  (LastIs("restore") /\ Len(Last.data) > maxBackupSize)
  => (Last.err # "nil" /\ ~Last.started)

\* the argument name@version of a version of a name
Versioned(name, v) == cleanSnapshotName(name) \o <<"@">> \o v.Version

\* the last call is a call of `kind` that has just returned without error
Returns(kind) ==
  /\ cphase = "store" /\ ops' # <<>> /\ now' = now + 1
  /\ ops'[1].kind = kind /\ ops'[1].err = "nil"

\* C14: two stores, two versions.  Whenever StoreSnapshot returns without
\* error under a name of which the store held one version, stored by an
\* earlier call and retrievable, the store holds two versions of the name:
\* ListVersions returns two entries with different version tokens, the new
\* one is retrievable with the data of this call and the old one with the
\* data it had.
C14_TwoStoresTwoVersions ==
  [][Returns("store") =>
       \A before \in List(store), after \in List(store') :
         LET name == ops'[1].arg
             old == ListVersions(before, name)
             new == ListVersions(after, name)
         IN (Len(old) = 1
             /\ GetSnapshot(store, before, Versioned(name, old[1])).err = "nil")
            => /\ Len(new) = 2
               /\ new[1].Version # new[2].Version
               /\ GetSnapshot(store', after, ops'[1].id).err = "nil"
               /\ GetSnapshot(store', after, ops'[1].id).data = ops'[1].data
               /\ GetSnapshot(store', after, Versioned(name, old[1]))
                    = GetSnapshot(store, before, Versioned(name, old[1]))]_vars

\* the bare names of the versions in the store
BareNames == {<<"a">>, <<"b">>}

\* the stored versions of a name: the records that the backend lists under
\* an id whose part before the first "@" is the name
VersionsOf(st, name) ==
  {st.meta[id] : id \in {x \in DOMAIN st.meta : SplitN(x)[1] = name}}

\* the stored version of a name that was created last
Newest(st, name) ==
  CHOOSE m \in VersionsOf(st, name) :
    \A y \in VersionsOf(st, name) \ {m} : y.CreatedAt < m.CreatedAt

\* a record with its metadata and its data
Complete(st, id) == id \in DOMAIN st.meta /\ id \in DOMAIN st.data

\* C15: GetSnapshot resolves its argument to one stored version.  In every
\* state of the store and for every order in which the backend lists the
\* records: for name@token GetSnapshot returns what the backend holds under
\* that key, the metadata and data of the record when both are there; for
\* a bare name with stored versions it returns what the backend holds under
\* the key of the version with the greatest CreatedAt.
C15_GetSnapshotResolves ==
  cphase = "store" =>
    \A backups \in List(store) :
      /\ \A id \in DOMAIN store.meta :
           LET got == GetSnapshot(store, backups, id)
           IN IF Complete(store, id)
                THEN /\ got.err = "nil"
                     /\ got.metadata = store.meta[id]
                     /\ got.data = store.data[id]
                ELSE got.err # "nil"
      /\ \A name \in BareNames :
           VersionsOf(store, name) # {} =>
             LET m == Newest(store, name)
                 got == GetSnapshot(store, backups, name)
             IN /\ \A y \in VersionsOf(store, name) \ {m} :
                     y.CreatedAt < m.CreatedAt
                /\ got = GetSnapshot(store, backups, m.ID)
                /\ Complete(store, m.ID) => got.metadata = m

\* C15 witness: the store holds two versions of "a", the one created last
\* with the lesser token; for a listing that names the newest first and for
\* one that names it last, GetSnapshot("a") returns the one created last.
C15_Witness ==
  /\ cphase = "store"
  /\ \E m, y \in VersionsOf(store, <<"a">>) :
       /\ y.CreatedAt < m.CreatedAt
       /\ TokenIndex(m.Version) < TokenIndex(y.Version)
       /\ \E b1, b2 \in List(store) :
            /\ b1[1] = m /\ b2[Len(b2)] = m /\ Len(b1) > 1
            /\ GetSnapshot(store, b1, <<"a">>).metadata = m
            /\ GetSnapshot(store, b2, <<"a">>).metadata = m
            /\ GetSnapshot(store, b1, <<"a">>).err = "nil"

\* the objects of the names other than `name` are the same in both stores
OthersSame(st1, st2, name) ==
  \A f \in {"data", "meta"} :
    \A id \in {x \in (DOMAIN st1[f]) \cup (DOMAIN st2[f]) : SplitN(x)[1] # name} :
      id \in DOMAIN st1[f] /\ id \in DOMAIN st2[f] /\ st1[f][id] = st2[f][id]

\* the last call is DeleteSnapshot of a bare name and has just returned
\* without error (a confirmation that is declined makes no call of
\* backend.Delete)
DeletedName ==
  Returns("delete") /\ ~Contains(ops'[1].arg, "@") /\ ops'[1].calls # <<>>

\* C16: delete of a name.  Whenever DeleteSnapshot(name) with a bare name
\* returns without error, then for every order of the listing
\* ListVersions(name) is empty and SnapshotExists(name) is false, no record
\* of the name is left, and the objects of every other name are as before.
C16_DeleteNameRemovesAll ==
  [][DeletedName =>
       /\ \A after \in List(store') :
            /\ ListVersions(after, ops'[1].arg) = <<>>
            /\ ~SnapshotExists(store', after, ops'[1].arg)
       /\ VersionsOf(store', ops'[1].arg) = {}
       /\ OthersSame(store, store', ops'[1].arg)]_vars

\* C16 witness: DeleteSnapshot("a") has removed two versions of "a" and the
\* version of "b" is still stored.
C16_Witness ==
  /\ LastIs("delete") /\ Last.arg = <<"a">> /\ Last.err = "nil"
  /\ Len(Last.calls) = 2
  /\ VersionsOf(store, <<"a">>) = {}
  /\ VersionsOf(store, <<"b">>) # {}

\* the last call is a delete of a bare name and has just returned
DeleteOfName ==
  /\ cphase = "store" /\ ops' # <<>> /\ now' = now + 1
  /\ ops'[1].kind = "delete" /\ ~Contains(ops'[1].arg, "@")

\* C17: delete of a name without versions.  Whenever a delete of a bare name
\* of which the store holds no version returns, it returns the not-found
\* error, has made no call of backend.Delete and the store is as before.
C17_DeleteNothingIsNotFound ==
  [][(DeleteOfName /\ VersionsOf(store, ops'[1].arg) = {}) =>
       /\ ops'[1].err = "no snapshots found"
       /\ ops'[1].calls = <<>>
       /\ store' = store]_vars

\* C17 witness: a delete of "a" in a store that holds only a version of "b"
\* has returned the not-found error.
C17_Witness ==
  /\ LastIs("delete") /\ Last.arg = <<"a">>
  /\ Last.err = "no snapshots found" /\ Last.calls = <<>>
  /\ VersionsOf(store, <<"a">>) = {} /\ VersionsOf(store, <<"b">>) # {}

\* the last call is DeleteSnapshot of name@version and has just returned
\* without error (a confirmation that is declined makes no call of
\* backend.Delete)
DeletedVersion ==
  Returns("delete") /\ Contains(ops'[1].arg, "@") /\ ops'[1].calls # <<>>

\* C18: delete of a version.  Whenever DeleteSnapshot(name@token) returns
\* without error, the objects of that id are gone and the objects of every
\* other id, of the same name or of another, are as before; and when the
\* store held two versions of the name and the deleted one was created
\* first, GetSnapshot(name) returns the other one, for every order of the
\* listing.
C18_DeleteVersionExact ==
  [][DeletedVersion =>
       LET id == ops'[1].arg
           name == SplitN(id)[1]
       IN /\ id \notin DOMAIN store'.meta /\ id \notin DOMAIN store'.data
          /\ \A f \in {"data", "meta"} :
               /\ DOMAIN store'[f] = (DOMAIN store[f]) \ {id}
               /\ \A x \in DOMAIN store'[f] : store'[f][x] = store[f][x]
          /\ \A m \in VersionsOf(store, name) :
               ( /\ Cardinality(VersionsOf(store, name)) = 2
                 /\ Complete(store, id) /\ Complete(store, m.ID)
                 /\ store.meta[id].CreatedAt < m.CreatedAt )
               => \A after \in List(store') :
                    /\ GetSnapshot(store', after, name).err = "nil"
                    /\ GetSnapshot(store', after, name).metadata = m
                    /\ GetSnapshot(store', after, name).data = store.data[m.ID]]_vars

\* C18 witness: of two versions of "a" the one created first has been
\* deleted by its id; the one created last and the version of "b" are still
\* stored, and GetSnapshot("a") returns the one created last.
C18_Witness ==
  /\ LastIs("delete") /\ Last.err = "nil"
  /\ Last.arg = <<"a", "@", "t0">> /\ Last.removed = {Last.arg}
  /\ \E m \in VersionsOf(store, <<"a">>) :
       /\ VersionsOf(store, <<"a">>) = {m} /\ m.CreatedAt >= TicksPerSec
       /\ \A after \in List(store) :
            GetSnapshot(store, after, <<"a">>).metadata = m
  /\ VersionsOf(store, <<"b">>) # {}

\* C19: ListVersions in timestamp order.  In every state of the store, for
\* every name and every order in which the backend lists the records, the
\* versions that ListVersions returns are in the order of their creation,
\* oldest first or newest first.
C19_VersionsInTimestampOrder ==
  cphase = "store" =>
    \A name \in BareNames, backups \in List(store) :
      LET vs == ListVersions(backups, name)
      IN \/ \A k, l \in 1..Len(vs) : k < l => vs[k].CreatedAt <= vs[l].CreatedAt
         \/ \A k, l \in 1..Len(vs) : k < l => vs[k].CreatedAt >= vs[l].CreatedAt

\* the names that have a stored version: the parts before the first "@" of
\* the ids that the backend lists
StoredNames(st) == {SplitN(id)[1] : id \in DOMAIN st.meta}

\* the entries of a list of snapshots under a name
EntriesOf(infos, name) == {e \in infos : e.Name = name}

\* C20: ListSnapshots groups the versions by name.  In every state of the
\* store and for every order in which the backend lists the records, the list
\* has exactly one entry for each name that has a stored version and none for
\* another name; the entry's VersionCount is the number of versions that
\* ListVersions returns for the name, and its Size, CreatedAt, Version and
\* Encrypted are those of the stored version with the greatest CreatedAt,
\* the version whose metadata GetSnapshot(name) returns.  After a store of
\* an unencrypted backup under a name that leaves it the only record, the
\* list is one entry of that name, not encrypted, with VersionCount 1.
C20_ListSnapshotsGroups ==
  \A backups \in List(store) :
    LET infos == ListSnapshots(backups)
    IN /\ {e.Name : e \in infos} = StoredNames(store)
       /\ \A name \in StoredNames(store) :
            LET m == Newest(store, name)
                got == GetSnapshot(store, backups, name)
            IN /\ Cardinality(EntriesOf(infos, name)) = 1
               /\ \A e \in EntriesOf(infos, name) :
                    /\ e.VersionCount = Len(ListVersions(backups, name))
                    /\ e.VersionCount = Cardinality(VersionsOf(store, name))
                    /\ e.Size = m.Size
                    /\ e.CreatedAt = m.CreatedAt
                    /\ e.Version = m.Version
                    /\ e.Encrypted = m.Encrypted
                    /\ Complete(store, m.ID) => got.err = "nil" /\ got.metadata = m
       /\ (/\ cphase = "store"
           /\ LastIs("store")
           /\ Last.err = "nil"
           /\ Last.arg \in BareNames
           /\ DOMAIN store.meta = {Last.id}
           /\ ~store.meta[Last.id].Encrypted)
            => \E e \in infos :
                 /\ infos = {e}
                 /\ e.Name = Last.arg
                 /\ ~e.Encrypted
                 /\ e.VersionCount = 1

\* two names are listed; one of them has an encrypted version and a later
\* version that is not encrypted and has the smaller token
C20_Witness ==
  /\ cphase = "store"
  /\ Cardinality(StoredNames(store)) = 2
  /\ \E x, y \in VersionsOf(store, <<"a">>) :
       /\ x.Encrypted
       /\ ~y.Encrypted
       /\ y = Newest(store, <<"a">>)
       /\ \E k \in 1..Len(Tokens), l \in 1..Len(Tokens) :
            k < l /\ y.Version = Tokens[k] /\ x.Version = Tokens[l]

\* C21: the rollback of a failed store.  Whenever a store has returned an
\* error, the data file of its id is there exactly when the metadata file of
\* its id is there, whether the id was new or held a record before the call.
C21_FailedStoreLeavesBothOrNone ==
  (LastIs("store") /\ Last.err # "nil")
  => (Last.id \in DOMAIN store.data <=> Last.id \in DOMAIN store.meta)

\* an id that was never stored
AbsentID == <<"z", "@", "t0">>

\* the ids that the backend holds a file of, and one that it holds none of
KnownIDs(st) == (DOMAIN st.meta) \cup (DOMAIN st.data) \cup {AbsentID}

\* the errors of Retrieve that say that a file does not exist: "backup not
\* found" for the metadata file, and the error of os.Open for the data file
NotFoundErrors == {"not found", "open"}

OtherIDsSame(st1, st2, id) ==
  /\ (DOMAIN st1.data) \ {id} = (DOMAIN st2.data) \ {id}
  /\ (DOMAIN st1.meta) \ {id} = (DOMAIN st2.meta) \ {id}
  /\ \A x \in (DOMAIN st1.data) \ {id} : st1.data[x] = st2.data[x]
  /\ \A x \in (DOMAIN st1.meta) \ {id} : st1.meta[x] = st2.meta[x]

\* C23: the backend's Delete is idempotent.  In every state of the store and
\* for every id, Delete returns no error and leaves no file of the id and
\* the files of every other id as they were; on an id without files it
\* changes nothing; a second Delete of the id returns no error and leaves
\* the store of the first.  A delete of name@version that has returned
\* without error and has called the backend has left no file of that id
\* and has removed no other.
C23_DeleteIdempotent ==
  cphase = "store" =>
    /\ \A id \in KnownIDs(store) :
         LET once == LocalDelete(store, id, "none")
             twice == LocalDelete(once.store, id, "none")
         IN /\ once.err = "nil"
            /\ id \notin (DOMAIN once.store.data) \cup (DOMAIN once.store.meta)
            /\ OtherIDsSame(store, once.store, id)
            /\ id \notin (DOMAIN store.data) \cup (DOMAIN store.meta)
                 => once.store = store
            /\ twice.err = "nil"
            /\ twice.store = once.store
    /\ (/\ LastIs("delete")
        /\ Contains(Last.arg, "@")
        /\ Last.err = "nil"
        /\ Last.calls # <<>>)
         => /\ Last.calls = <<Last.arg>>
            /\ Last.arg \notin (DOMAIN store.data) \cup (DOMAIN store.meta)
            /\ Last.removed \subseteq {Last.arg}

\* a delete of an id that the store holds no file of has returned without
\* error, and the store holds other records
C23_Witness ==
  /\ LastIs("delete")
  /\ Last.arg = <<"a", "@", "x">>
  /\ Last.calls = <<Last.arg>>
  /\ Last.err = "nil"
  /\ Last.removed = {}
  /\ Cardinality(DOMAIN store.meta) >= 2

\* C24: restartContainers.  Whenever an operation whose containers were
\* stopped without error has returned, StartContainer was called for exactly
\* the entries of the map that say was-running; the starts that failed are
\* exactly those of the called containers on which the start call fails,
\* and all of them are in the error; every other called container runs,
\* also when the start of another one failed; a container of an entry that
\* says not-running does not run.
C24_RestartEveryRunning ==
  \A i \in 1..Len(ops) :
    (cphase = "off" /\ ops[i].out.err # "stop containers") =>
      LET o == ops[i].out
          failing == FailOn(ops[i].in.fault, "start")
      IN /\ o.startCalls = {c \in Containers : o.stopped[c] = "was"}
         /\ o.restartErrs = o.startCalls \cap failing
         /\ \A c \in o.startCalls \ failing : o.running[c]
         /\ \A c \in o.restartErrs : ~o.running[c]
         /\ \A c \in Containers : o.stopped[c] = "wasnot" => ~o.running[c]

\* two containers were stopped, the start of c1 failed and c2 was started
C24_Witness ==
  \E i \in 1..Len(ops) :
    /\ ops[i].out.stopped = [c \in Containers |-> "was"]
    /\ ops[i].in.fault = "start"
    /\ ops[i].out.startCalls = {"c1", "c2"}
    /\ ops[i].out.restartErrs = {"c1"}
    /\ running["c2"] /\ ~running["c1"]

\* C25: a failed restart is reported.  Whenever a backup or restore has
\* returned and the start of a container failed at its end, the failed
\* containers were reported in a warning, in every output mode, and the
\* operation returned what it would have returned without the failure.
C25_RestartFailureReported ==
  \A i \in 1..Len(ops) :
    (cphase = "off" /\ ops[i].out.restartErrs # {})
    => ops[i].out.warnings = ops[i].out.restartErrs

\* the errors of a restore that say that the stored stream is not what its
\* metadata says: no encryption header found, and no header to read
CorruptErrors == {"no header", "read header"}

\* a restore got as far as reading the stream of a snapshot that its
\* metadata marks as encrypted and that does not begin with the magic tag
HeaderMissing(j) ==
  /\ OpIs(j, "restore")
  /\ Logged(ops[j].out, "peek")
  /\ ops[j].in.fault \in {"damaged", "truncated"}

\* C26: an encrypted snapshot without its header.  Whenever a restore has
\* read the stream of a snapshot whose metadata says encrypted and the stream
\* does not begin with the magic tag, the restore returned the error of a
\* missing header, which is not the error of a failed authentication; no
\* password was asked, nothing was decrypted, nothing was written to the
\* temporary file, the sandbox of the extraction was not started and the
\* volume holds what it held.
C26_NoHeaderIsCorruption ==
  \A j \in 1..Len(ops) :
    HeaderMissing(j) =>
      LET o == ops[j].out
      IN /\ o.err \in CorruptErrors
         /\ o.decErr = "nil"
         /\ ~Logged(o, "password") /\ ~Logged(o, "copy")
         /\ o.temp = <<>>
         /\ ~o.started
         /\ o.content = ops[j].volBefore

\* a restore with the right password of an encrypted snapshot whose first
\* byte was changed has returned
C26_Witness ==
  \E i, j \in 1..Len(ops) :
    /\ OpIs(i, "backup") /\ ops[i].in.encrypt /\ ops[i].out.err = "nil"
    /\ HeaderMissing(j)
    /\ ops[j].in.fault = "damaged"
    /\ PasswordOf(ops[j].in) = PasswordOf(ops[i].in)
    /\ ops[j].out.err = "no header"

\* ========================================= claims: the encryption header
\* the stream does not begin with the magic tag and the version byte
BadHeader(st) ==
  \/ SubSeq(ToBytes(st), 1, MagicLen) # Magic
  \/ ToBytes(st)[MagicLen + 1] # FormatVersion

\* C27: ReadEncryptionHeader.  Whenever the header of a stream is read: when
\* the stream does not begin with the magic tag, or its version byte is not
\* 1, the read returns the error of the tag or of the version, no
\* DecryptReader is made (no key is derived) and nothing is ever opened;
\* when the header is as WriteEncryptionHeader wrote it, the read returns
\* the salt and the base nonce that were written and leaves the reader
\* right behind the header (the magic tag, one version byte, the salt and
\* the nonce).
C27_HeaderReadFailsClosed ==
  [][cphase = "hdr" =>
       /\ BadHeader(stream)
            => /\ derr' = (IF SubSeq(ToBytes(stream), 1, MagicLen) # Magic
                             THEN "magic" ELSE "version")
               /\ cphase' = "done"
               /\ dr' = NoReader
               /\ out' = <<>>
       /\ tamperPos \notin 1..HeaderLen
            => /\ cphase' = "dec"
               /\ dr'.cipher = DeriveKey(dpw, er.cipher[2])
               /\ dr'.baseNonce = er.baseNonce
               /\ dr'.reader = Drop(stream, HeaderLen)
               /\ Len(stream) - Len(dr'.reader) = MagicLen + 1 + SaltSize + NonceSize
               /\ dr'.counter = 0 /\ dr'.decrypted = <<>>]_vars

\* the version byte of a stream was changed, and reading its header has
\* ended the decryption with the error of the version
C27_Witness ==
  /\ cphase = "done"
  /\ tamperPos = MagicLen + 1
  /\ derr = "version"
  /\ dr = NoReader
  /\ out = <<>>

\* the number of counters that fit the bytes of the nonce that the counter
\* is XOR-ed into, up to MaxChunks
CounterRange == Min(MaxChunks, 256 ^ Min(NonceSize, CounterBytes))

\* the nonces of the sealed bytes of a stream
NoncesIn(st) == {st[p].nonce : p \in {q \in 1..Len(st) : st[q].kind = "s"}}

\* C28: the nonces of the chunks.  For the base nonce of every encryption,
\* taken when the EncryptReader is new, the nonces that it gives for the
\* counters 0, 1, ... are pairwise different, as far as the counter fits the
\* bytes of the nonce it is XOR-ed into; and in every state the chunks
\* sealed into the stream so far have as many different nonces as there are
\* chunks.
C28_ChunkNoncesDiffer ==
  cphase \in {"enc", "tamper", "hdr", "dec", "done"} =>
    /\ (cphase = "enc" /\ er.counter = 0)
         => Cardinality({ChunkNonce(er.baseNonce, c) :
                           c \in 0..(CounterRange - 1)}) = CounterRange
    /\ Cardinality(NoncesIn(stream)) = Len(chunks)
    /\ er.counter = Len(chunks)

\* three chunks have been sealed into the stream
C28_Witness ==
  /\ cphase = "tamper"
  /\ er.counter = 3
  /\ Cardinality(NoncesIn(stream)) = 3

\* ================================================ claims: stored sizes
\* C29: the size in the metadata.  Whenever a backup has stored a snapshot,
\* the Size of its metadata is the number of bytes of its stored data, with
\* and without encryption and whatever the length of the archive.
C29_SizeIsStoredLength ==
  \A i \in 1..Len(ops) :
    (cphase = "off" /\ OpIs(i, "backup") /\ ops[i].out.err = "nil")
    => LET id == ops[i].out.id
           st == ops[i].out.store
       IN st.meta[id].Size = Len(st.data[id])

\* ========================================== claims: concurrent instances
\* C30: concurrent backups are independent.  Whenever two instances have
\* stored their backups, in whatever order their steps were taken and
\* whatever the two names, the store holds for each of them, under the id it
\* stored, the data and the metadata that it stored.
C30_ConcurrentBackupsIndependent ==
  (cphase = "conc" /\ \A p \in 1..2 : ops[p].pc = "done")
  => \A p \in 1..2 :
       LET got == LocalRetrieve(store, ops[p].id)
       IN /\ got.err = "nil"
          /\ got.data = ops[p].data
          /\ got.metadata = ops[p].metadata

\* ============================================== claims: memory in use
\* C31: memory is bounded by the chunk size.  Whenever a backup or a restore
\* has returned, the number of data bytes that it held in memory at one time
\* is at most that of the buffers of a streaming copy, whatever the size of
\* the volume.
C31_MemoryBoundedByChunk ==
  \A i \in 1..Len(ops) :
    /\ cphase = "off" => ops[i].out.held <= StreamHeld
    /\ cphase = "store" => ops[i].held <= StreamHeld

\* ================================= claims: segmentation of the ciphertext
IsPrefix(s, t) == Len(s) <= Len(t) /\ Take(t, Len(s)) = s

\* C32: the plaintext does not depend on how the underlying reader splits
\* the ciphertext.  While an unchanged stream is read through a DecryptReader
\* built with the password of the stream, whatever sizes the reads of the
\* underlying reader return, no read fails authentication and the bytes
\* delivered so far are the leading bytes of the plaintext.
C32_SegmentationIndependent ==
  (cphase \in {"dec", "done"} /\ tamperPos = 0 /\ dpw = epw)
  => (derr # "auth" /\ IsPrefix(out, plain))

\* ============================== claims: reading on after a failed chunk
\* C33: failure is sticky.  Once a Read of the DecryptReader has returned the
\* authentication error, every later Read of the same reader returns an
\* error or the end of the input, and no plaintext byte.
C33_AuthFailureSticky ==
  cphase \in {"after", "end"} => (ops[1].err # "nil" /\ ops[1].data = <<>>)

\* ================================== claims: containers to stop and start
\* C34: a failed stop still restarts.  Whenever an operation has returned
\* the error of stopContainers (a container of the list was not found, or
\* its stop call failed) after it had stopped earlier containers of the
\* list, a start was attempted for every container that it had stopped.
C34_PartialStopRestarts ==
  \A i \in 1..Len(ops) :
    (cphase = "off" /\ ops[i].out.err = "stop containers")
    => Stopped(ops[i].out) \subseteq ops[i].out.startCalls

\* C35: the running state is restored.  Whenever an operation whose
\* stopContainers returned without error has returned and no start call
\* failed, every container runs exactly when it ran before the operation,
\* whatever the stop list: also one that names a container twice, or once by
\* its name and once by its id.
C35_RunningStateRestored ==
  \A i \in 1..Len(ops) :
    ( /\ cphase = "off"
      /\ ops[i].out.err # "stop containers"
      /\ ops[i].in.fault # "start" )
    => \A c \in Containers : ops[i].out.running[c] = ops[i].runBefore[c]

\* ======================================== claims: finding a container
NamesOf(container) ==
  {TrimSlash(container.Names[k]) : k \in 1..Len(container.Names)}

Listed(containers) == {containers[k] : k \in 1..Len(containers)}

\* C36: GetContainer resolves a word the same way in every listing order.
\* Whenever GetContainer has returned: it returns the same for every order
\* in which docker may list the same containers; when a listed container has
\* exactly the word as its name and no listed container has it as its whole
\* id, that container is returned, also when the id of another container
\* begins with the word; and when the word is no listed id, no non-empty
\* beginning of a listed id and no listed name, the call returns not found.
C36_GetContainerDeterministic ==
  (cphase = "docker" /\ ops # <<>>) =>
    LET name == ops[1].name
        got == ops[1].got
        listed == Listed(store)
    IN /\ \A l \in Perms(listed) : GetContainer(l, name) = got
       /\ ( /\ \E c \in listed : name \in NamesOf(c)
            /\ \A c \in listed : c.ID # name )
          => (got.found /\ name \in NamesOf(got.container))
       /\ ( /\ \A c \in listed : c.ID # name /\ name \notin NamesOf(c)
            /\ \A c \in listed : ~(name # <<>> /\ HasPrefix(c.ID, name)) )
          => ~got.found

\* ======================================== claims: the names of snapshots
\* C37: a snapshot is found under the name it was stored with.  Whenever
\* StoreSnapshot has stored a snapshot under a non-empty name, then for every
\* listing of the backend GetSnapshot of that name returns the stored data,
\* ListVersions of that name holds the stored version and SnapshotExists of
\* that name is true; cleaning the cleaned name changes nothing; and the
\* name part of the stored id is not empty.
C37_FoundUnderStoredName ==
  (cphase = "names" /\ ops # <<>> /\ ops[1].err = "nil") =>
    LET name == ops[1].name
        id == ops[1].id
    IN /\ \A backups \in List(store) :
            /\ GetSnapshot(store, backups, name).err = "nil"
            /\ GetSnapshot(store, backups, name).data = ops[1].data
            /\ \E k \in 1..Len(ListVersions(backups, name)) :
                 cleanSnapshotName(name) \o <<"@">>
                   \o ListVersions(backups, name)[k].Version = id
            /\ SnapshotExists(store, backups, name)
       /\ cleanSnapshotName(cleanSnapshotName(name)) = cleanSnapshotName(name)
       /\ SplitN(id)[1] # <<>>

\* what the store shows of a name: its versions, what GetSnapshot returns
\* for it and its entry in ListSnapshots, over the listings of the backend
ViewOf(st, name) ==
  [versions |-> {{ListVersions(l, name)[k] : k \in 1..Len(ListVersions(l, name))} :
                   l \in List(st)},
   snapshot |-> {GetSnapshot(st, l, name) : l \in List(st)},
   entry |-> {{e \in ListSnapshots(l) : e.Name = cleanSnapshotName(name)} :
                l \in List(st)}]

\* C38: names are isolated.  Whenever StoreSnapshot or DeleteSnapshot has
\* been called on a name A, then for every name B whose cleaned form differs
\* from that of A the versions of B, the snapshot that GetSnapshot returns
\* for B and the entry of B in ListSnapshots are what they were before the
\* call, also when one name is the beginning of the other or holds "@".
C38_NameIsolation ==
  [][( /\ cphase = "store"
       /\ now' = now + 1
       /\ ops'[1].kind \in {"store", "delete"}
       /\ ops'[1].arg \in StoreNames )
     => \A B \in StoreNames :
          cleanSnapshotName(B) # cleanSnapshotName(ops'[1].arg)
          => ViewOf(store', B) = ViewOf(store, B)]_vars

\* ============================================ claims: what the store holds
\* C39: what the backend shows can be retrieved.  In every state of the
\* store, after whatever stores and deletes in which a write or a removal of
\* one file may have failed, every id for which Exists is true, and every
\* record that List returns, is one that Retrieve returns without error.
C39_ListedIsRetrievable ==
  cphase = "store"
  => /\ \A id \in DOMAIN store.meta \cup DOMAIN store.data :
          LocalExists(store, id) => LocalRetrieve(store, id).err = "nil"
     /\ \A backups \in List(store) : \A k \in 1..Len(backups) :
          LocalRetrieve(store, backups[k].ID).err = "nil"

\* ============================================ claims: the repository
\* C40: the index agrees with the backend.  After whatever calls of
\* StoreBackup and DeleteBackup, for every container the history in the
\* index holds the backups that were stored and not deleted, in the order of
\* storing; GetBackup of every position of the history returns the data that
\* was stored for the backup at that position; and GetLatestBackup returns
\* the data of the backup stored last among those not deleted.
C40_IndexConsistent ==
  cphase = "repo" =>
    \A c \in RepoContainers :
      LET index == loadIndex(store).index
          history == IF c \in DOMAIN index.Containers
                       THEN index.Containers[c].Backups ELSE <<>>
      IN /\ Len(history) = Len(ops[c])
         /\ \A i \in 1..Len(history) :
              /\ history[i].ID = ops[c][i].id
              /\ GetBackup(store, c, i).err = "nil"
              /\ GetBackup(store, c, i).data = ops[c][i].data
         /\ ops[c] # <<>>
            => /\ GetLatestBackup(store, c).err = "nil"
               /\ GetLatestBackup(store, c).data = ops[c][Len(ops[c])].data

====
